---------------------------- MODULE Spec2Model ----------------------------
(***************************************************************************)
(* A model of @moleculer/database's MongoDB adapter                        *)
(* (src/src/adapters/mongodb.js) and of its ID generator                   *)
(* (src/src/snowflake.js).                                                 *)
(*                                                                         *)
(* The components are modelled each with its own specification:            *)
(*   ConnSpec   the process-wide client store and connect()/disconnect()   *)
(*   FlakeSpec  Snowflake.prototype.generate                               *)
(*   DbSpec     the query translator, find, count and updateById           *)
(*   WriteSpec  insert, insertMany, replaceById and findById               *)
(*   IndexSpec  the end of connect() and the indexes connected() ensures   *)
(* The variables of the components a specification does not move keep      *)
(* their initial values.                                                   *)
(***************************************************************************)
EXTENDS Integers, Sequences, FiniteSets, TLC

VARIABLES
    store,      \* the global client store: store key -> entry or NoEntry
    clients,    \* the physical MongoClient objects created so far
    pc,         \* where each adapter is in connect()/disconnect()
    aClient,    \* this.client of each adapter (NoClient is null)
    aUri,       \* this.opts.uri of each adapter ("" is undefined)
    nConnects,  \* how many times connect() was called so far
    now,            \* Date.now() - epoch, as [hi, lo]: hi * 2^24 + lo
    lastTime,       \* this.lastTime
    seq,            \* this.seq
    rnd,            \* this.rnd
    instanceNumber, \* this.instanceNumber, a string of binary digits
    lastId,         \* what the latest generate() returned (or that it threw)
    rawLen,         \* decimal digits of the latest ID before padding and cutting
    callsThisMs,    \* generate() calls made in the current millisecond
    burst,          \* some millisecond has had more than 4096 calls
    nCalls,         \* generate() calls made since the initial state
    nTicks,         \* clock ticks since the initial state
    collection,     \* the collection: its documents in natural order
    lastOp,         \* the adapter method called last
    findParams,     \* the params of the latest find
    findResult,     \* the entities the latest find returned
    findAt,         \* their positions in the collection
    upd,            \* id, changes and raw of the latest updateById
    updated,        \* what the latest updateById returned: <<entity>> or <<>>
    threw,          \* the latest call was rejected
    nOps,           \* adapter methods called since the initial state
    counted,        \* what the latest count returned (NoCount: none)
    primaryField,   \* this.service.$primaryField
    nextOid,        \* the ObjectIds the driver has handed out so far
    call,           \* the arguments of the latest write or findById
    ret,            \* what it returned: a sequence of values
    errMsg,         \* the message of the error it raised ("" if none)
    ipc,            \* where connected() of each adapter's latest connect() is
    listed,         \* the index names collection.indexes() gave each adapter
    submitted,      \* toCreateIndexes of each adapter
    results,        \* what each adapter's createIndex calls met and returned
    existing,       \* the names of the indexes on the collection
    hasColl,        \* the collection exists on the server
    settingsIndexes \* this.service.settings.indexes

connVars == <<store, clients, pc, aClient, aUri, nConnects>>

flakeVars == <<now, lastTime, seq, rnd, instanceNumber, lastId, rawLen,
               callsThisMs, burst, nCalls, nTicks>>

dbVars == <<collection, lastOp, findParams, findResult, findAt, upd, updated,
           threw, nOps, counted>>

writeVars == <<primaryField, nextOid, call, ret, errMsg>>

indexVars == <<ipc, listed, submitted, results, existing, hasColl,
              settingsIndexes>>

vars == <<connVars, flakeVars, dbVars, writeVars, indexVars>>

\* what the steps of one component leave alone
ConnFrame == UNCHANGED <<flakeVars, dbVars, writeVars>>
IndexFrame == UNCHANGED indexVars
FlakeFrame == UNCHANGED <<connVars, dbVars, writeVars, indexVars>>
DbFrame == UNCHANGED <<connVars, flakeVars, writeVars, indexVars>>

(***************************************************************************)
(* Bounds of the model.                                                    *)
(***************************************************************************)
NumAdapters == 2
MaxConnects == 3
MaxCalls == 2
MaxTicks == 1
MaxOps == 2
MaxWrites == 2
ManyEntities == 25

Adapters == 1..NumAdapters

(***************************************************************************)
(* Connection identity.                                                    *)
(***************************************************************************)
DefaultUri == "mongodb://localhost:27017"
OtherUri == "mongodb://db2:27017"
UriOptions == {"", OtherUri}

\* const uri = this.opts.uri || 'mongodb://localhost:27017'
ResolveUri(optsUri) == IF optsUri = "" THEN DefaultUri ELSE optsUri

\* this.storeKey = `mongodb|${uri}`; the key is written here as the uri it
\* is built from, the prefix being the same for every adapter.
StoreKey(optsUri) == ResolveUri(optsUri)

Keys == {StoreKey(u) : u \in UriOptions}

NoClient == 0
NoEntry == [client |-> NoClient, refs |-> 0]

(***************************************************************************)
(* The global client store of the base adapter: a reference-counted entry  *)
(* per store key.                                                          *)
(***************************************************************************)
\* getClientFromGlobalStore(key): the registered client or null.
GetClient(st, key) == st[key].client

\* getClientFromGlobalStore(key) also takes a reference when it finds one.
StoreAfterGet(st, key) ==
    IF st[key] = NoEntry THEN st
    ELSE [st EXCEPT ![key].refs = @ + 1]

\* setClientToGlobalStore(key, client): a new entry holding one reference.
SetClient(st, key, c) == [st EXCEPT ![key] = [client |-> c, refs |-> 1]]

\* removeAdapterFromClientGlobalStore(key): TRUE when the caller released
\* the last reference (the entry is then removed).
ReleaseIsLast(st, key) == st[key] # NoEntry /\ st[key].refs = 1

StoreAfterRelease(st, key) ==
    IF st[key] = NoEntry THEN st
    ELSE IF st[key].refs > 1 THEN [st EXCEPT ![key].refs = @ - 1]
    ELSE [st EXCEPT ![key] = NoEntry]

(***************************************************************************)
(* connect()                                                               *)
(***************************************************************************)
\* if (!this.client) : a client is constructed only when none is registered
NeedsNewClientAlways(found) == TRUE

NeedsNewClient(found) == found = NoClient

\* !this.client.topology || !this.client.topology.isConnected()
NotConnected(c) == clients[c].state # "open"

\* the run of connected() is followed for the connection the adapter has:
\* with the connection given up there is none to follow
NoConnectedRun(a) ==
    /\ ipc' = [ipc EXCEPT ![a] = "idle"]
    /\ listed' = [listed EXCEPT ![a] = {}]
    /\ submitted' = [submitted EXCEPT ![a] = <<>>]
    /\ results' = [results EXCEPT ![a] = <<>>]
    /\ UNCHANGED <<existing, hasColl, settingsIndexes>>

\* this.connected(), called without await: it runs up to its first await,
\* await this.collection.indexes(), and connect() goes on
ConnectedCalled(a) ==
    /\ ipc' = [ipc EXCEPT ![a] = "listing"]
    /\ UNCHANGED <<listed, submitted, results, existing, hasColl,
                   settingsIndexes>>

\* connect() up to its first await: lookup, construction and registration
\* happen in one synchronous run.
Connect(a) ==
    /\ ConnFrame
    /\ pc[a] \in {"idle", "failed", "stopped"}
    /\ nConnects < MaxConnects
    /\ IndexFrame
    /\ nConnects' = nConnects + 1
    /\ LET key == StoreKey(aUri[a])
           found == GetClient(store, key)
           st1 == StoreAfterGet(store, key)
       IN IF NeedsNewClient(found)
          THEN LET c == Len(clients) + 1
               IN /\ clients' = Append(clients, [key |-> key, state |-> "connecting", closes |-> 0])
                  /\ store' = SetClient(st1, key, c)
                  /\ aClient' = [aClient EXCEPT ![a] = c]
                  /\ pc' = [pc EXCEPT ![a] = "connecting"]
          ELSE /\ clients' = clients
               /\ store' = st1
               /\ aClient' = [aClient EXCEPT ![a] = found]
               /\ pc' = [pc EXCEPT ![a] = IF NotConnected(found) THEN "waiting" ELSE "ping"]
    /\ UNCHANGED aUri

\* await this.client.connect() resolves: the client emits 'open', which
\* resumes the adapter that created it and every adapter waiting for it.
DriverConnectOk(c) ==
    /\ ConnFrame
    /\ IndexFrame
    /\ c \in 1..Len(clients)
    /\ clients[c].state = "connecting"
    /\ clients' = [clients EXCEPT ![c].state = "open"]
    /\ pc' = [a \in Adapters |->
                IF aClient[a] = c /\ pc[a] \in {"connecting", "waiting"}
                THEN "ping" ELSE pc[a]]
    /\ UNCHANGED <<store, aClient, aUri, nConnects>>

\* await this.client.connect() rejects: the catch block releases the
\* creating adapter's reference and rethrows. No 'open' is emitted.
DriverConnectFail(c) ==
    /\ ConnFrame
    /\ IndexFrame
    /\ c \in 1..Len(clients)
    /\ clients[c].state = "connecting"
    /\ clients' = [clients EXCEPT ![c].state = "failed"]
    /\ \E a \in Adapters :
          /\ aClient[a] = c /\ pc[a] = "connecting"
          /\ store' = StoreAfterRelease(store, StoreKey(aUri[a]))
          /\ pc' = [pc EXCEPT ![a] = "failed"]
    /\ UNCHANGED <<aClient, aUri, nConnects>>

\* await this.db.command({ ping: 1 }) resolves; connect() opens the
\* collection, calls this.connected() and returns.
PingOk(a) ==
    /\ ConnFrame
    /\ pc[a] = "ping"
    /\ clients[aClient[a]].state = "open"
    /\ ConnectedCalled(a)
    /\ pc' = [pc EXCEPT ![a] = "ready"]
    /\ UNCHANGED <<store, clients, aClient, aUri, nConnects>>

\* await this.db.command({ ping: 1 }) rejects; connect() throws.
PingFail(a) ==
    /\ ConnFrame
    /\ IndexFrame
    /\ pc[a] = "ping"
    /\ pc' = [pc EXCEPT ![a] = "failed"]
    /\ UNCHANGED <<store, clients, aClient, aUri, nConnects>>

(***************************************************************************)
(* disconnect()                                                            *)
(***************************************************************************)
ShouldCloseAlways(isLast) == TRUE

\* if (this.removeAdapterFromClientGlobalStore(this.storeKey)) await this.client.close()
ShouldClose(isLast) == isLast

Disconnect(a) ==
    /\ ConnFrame
    /\ pc[a] \in {"ready", "failed", "stopped"}
    /\ aClient[a] # NoClient
    /\ NoConnectedRun(a)
    /\ LET key == StoreKey(aUri[a])
           c == aClient[a]
       IN /\ store' = StoreAfterRelease(store, key)
          /\ clients' = IF ShouldClose(ReleaseIsLast(store, key))
                        THEN [clients EXCEPT ![c].state = "closed", ![c].closes = @ + 1]
                        ELSE clients
    /\ pc' = [pc EXCEPT ![a] = "stopped"]
    /\ UNCHANGED <<aClient, aUri, nConnects>>

(***************************************************************************)
(* Strings are sequences of one-character strings.                         *)
(***************************************************************************)
HexChars == <<"0", "1", "2", "3", "4", "5", "6", "7", "8", "9",
              "a", "b", "c", "d", "e", "f">>
DecimalChars == {HexChars[i] : i \in 1..10}

Null == <<"null">>
NaN == 0 - 1
NaNString == <<"N", "a", "N">>

Max(a, b) == IF a >= b THEN a ELSE b
Min(a, b) == IF a <= b THEN a ELSE b

Repeat(ch, n) == [i \in 1..n |-> ch]

\* String.prototype.padStart(n, ch)
PadStart(s, n, ch) == IF Len(s) >= n THEN s ELSE Repeat(ch, n - Len(s)) \o s

\* String.prototype.substring(from, to): a negative index counts as 0, an
\* index past the end as the length.
Substring(s, from, to) == SubSeq(s, Max(from, 0) + 1, Min(to, Len(s)))

UpperChars == <<"A", "B", "C", "D", "E", "F", "G", "H", "I", "J", "K", "L", "M",
                "N", "O", "P", "Q", "R", "S", "T", "U", "V", "W", "X", "Y", "Z">>
LowerChars == <<"a", "b", "c", "d", "e", "f", "g", "h", "i", "j", "k", "l", "m",
                "n", "o", "p", "q", "r", "s", "t", "u", "v", "w", "x", "y", "z">>

LowerOf(ch) ==
    IF \E i \in DOMAIN UpperChars : UpperChars[i] = ch
    THEN LowerChars[CHOOSE i \in DOMAIN UpperChars : UpperChars[i] = ch]
    ELSE ch

\* String.prototype.toLowerCase
ToLowerCase(s) == [i \in 1..Len(s) |-> LowerOf(s[i])]

IsDigitChar(ch, base) == \E d \in 0..(base - 1) : HexChars[d + 1] = ch

\* parseInt(ch, base) of one character
ParseDigit(ch, base) ==
    IF IsDigitChar(ch, base)
    THEN CHOOSE d \in 0..(base - 1) : HexChars[d + 1] = ch
    ELSE NaN

\* parseInt(str, base): the value of the longest prefix of digits, NaN if
\* the string does not start with a digit of the base.
RECURSIVE ParseIntFrom(_, _, _, _)
ParseIntFrom(s, base, i, acc) ==
    IF i > Len(s) \/ ~IsDigitChar(s[i], base) THEN acc
    ELSE ParseIntFrom(s, base, i + 1, acc * base + ParseDigit(s[i], base))

ParseInt(s, base) ==
    IF s = Null \/ Len(s) = 0 \/ ~IsDigitChar(s[1], base) THEN NaN
    ELSE ParseIntFrom(s, base, 1, 0)

\* Number.prototype.toString(base)
RECURSIVE NatToString(_, _)
NatToString(n, base) ==
    IF n < base THEN <<HexChars[n + 1]>>
    ELSE NatToString(n \div base, base) \o <<HexChars[(n % base) + 1]>>

NumToString(n, base) == IF n = NaN THEN NaNString ELSE NatToString(n, base)

(***************************************************************************)
(* snowflake.js: base conversion on digit arrays, least significant digit  *)
(* first.                                                                  *)
(***************************************************************************)
\* parseToDigitsArray(str, base): null if a character is no digit
ParseToDigitsArray(str, base) ==
    IF \E i \in 1..Len(str) : ~IsDigitChar(str[i], base) THEN Null
    ELSE [i \in 1..Len(str) |-> ParseDigit(str[Len(str) + 1 - i], base)]

\* one pass of the while loop of add(x, y, base), at index i (from 1)
AddStep(st, x, y, base, i) ==
    LET xi == IF i <= Len(x) THEN x[i] ELSE 0
        yi == IF i <= Len(y) THEN y[i] ELSE 0
        zi == st.carry + xi + yi
    IN [z |-> Append(st.z, zi % base), carry |-> zi \div base]

\* passes i..j of that loop, in order; the range is halved so that the
\* evaluation stays shallow
RECURSIVE AddLoop(_, _, _, _, _, _)
AddLoop(st, x, y, base, i, j) ==
    IF i > j THEN st
    ELSE IF i = j THEN AddStep(st, x, y, base, i)
    ELSE LET m == (i + j) \div 2
             left == AddLoop(st, x, y, base, i, m)
         IN IF left.carry < 0 THEN left
            ELSE AddLoop(left, x, y, base, m + 1, j)

\* add(x, y, base): the loop runs over the longer array, and once more
\* while a carry is left (a carry is below the base)
Add(x, y, base) ==
    LET n == Max(Len(x), Len(y))
        st == AddLoop([z |-> <<>>, carry |-> 0], x, y, base, 1, n)
    IN IF st.carry # 0 THEN AddStep(st, x, y, base, n + 1).z ELSE st.z

\* multiplyByNumber(num, x, base), for num >= 0
RECURSIVE MultiplyLoop(_, _, _, _)
MultiplyLoop(num, power, result, base) ==
    LET r == IF num % 2 = 1 THEN Add(result, power, base) ELSE result
        n == num \div 2
    IN IF n = 0 THEN r ELSE MultiplyLoop(n, Add(power, power, base), r, base)

MultiplyByNumber(num, x, base) ==
    IF num = 0 THEN <<>> ELSE MultiplyLoop(num, x, <<>>, base)

\* one pass of the for loop of convertBase, on digit d
ConvertStep(st, d, fromBase, toBase) ==
    [outArray |->
        IF d # 0
        THEN Add(st.outArray, MultiplyByNumber(d, st.power, toBase), toBase)
        ELSE st.outArray,
     power |-> MultiplyByNumber(fromBase, st.power, toBase)]

\* passes i..j of that loop, in order (halved as in AddLoop)
RECURSIVE ConvertLoop(_, _, _, _, _, _)
ConvertLoop(st, digits, fromBase, toBase, i, j) ==
    IF i > j THEN st
    ELSE IF i = j THEN ConvertStep(st, digits[i], fromBase, toBase)
    ELSE LET m == (i + j) \div 2
             left == ConvertLoop(st, digits, fromBase, toBase, i, m)
         IN IF Len(left.power) = 0 THEN left
            ELSE ConvertLoop(left, digits, fromBase, toBase, m + 1, j)

\* convertBase(str, fromBase, toBase)
ConvertBase(str, fromBase, toBase) ==
    LET digits == ParseToDigitsArray(str, fromBase)
    IN IF digits = Null THEN Null
       ELSE LET outArray == ConvertLoop([outArray |-> <<>>, power |-> <<1>>],
                                        digits, fromBase, toBase, 1, Len(digits)).outArray
            IN [i \in 1..Len(outArray) |->
                   HexChars[outArray[Len(outArray) + 1 - i] + 1]]

\* hexToDec(hexStr)
HexToDec(hexStr) ==
    LET noPrefix == IF Substring(hexStr, 0, 2) = <<"0", "x">>
                    THEN SubSeq(hexStr, 3, Len(hexStr)) ELSE hexStr
    IN ConvertBase(ToLowerCase(noPrefix), 16, 10)

(***************************************************************************)
(* snowflake.js: the generator.                                            *)
(***************************************************************************)
SeqLimit == 4095
SeqBits == 12
RndBits == 10
InstancePad == 5
InstanceIdLen == 32
InstanceModulus == 24
InstanceBase == 1000
IdLength == 23

\* function Snowflake(options): this.instanceNumber
InstanceNumberOf(instanceId) ==
    LET padded == PadStart(instanceId, InstanceIdLen, "0")
        n == ParseInt(HexToDec(padded), 10)
        instanceNum == IF n = NaN THEN NaN ELSE (n % InstanceModulus) + InstanceBase
    IN PadStart(NumToString(instanceNum, 2), InstancePad, "0")

\* The clock value Date.now() - epoch is hi * 2^24 + lo.
LowRange == 2 ^ 24
LowWidth == Len(NatToString(LowRange - 1, 2))

\* time++
TimePlusOne(t) ==
    IF t.lo + 1 = LowRange THEN [hi |-> t.hi + 1, lo |-> 0]
    ELSE [hi |-> t.hi, lo |-> t.lo + 1]

\* (time - this.offset).toString(2), this.offset being 0
TimeToBinary(t) ==
    IF t.hi = 0 THEN NatToString(t.lo, 2)
    ELSE NatToString(t.hi, 2) \o PadStart(NatToString(t.lo, 2), LowWidth, "0")

\* the sequence number after a call: (seq, time moved on by the overflow)
NextSeqStuck(same, s) == IF same THEN s ELSE 0

NextSeq(same, s) == IF same THEN s + 1 ELSE 0

\* the loop turning the bit string into hexadecimal, four bits at a time
\* from the right
RECURSIVE BitsToHex(_, _)
BitsToHex(bid, i) ==
    IF i <= 0 THEN <<>>
    ELSE BitsToHex(bid, i - 4)
            \o NumToString(ParseInt(Substring(bid, i - 4, i), 2), 16)

\* const bid = bTime + this.instanceNumber + bSeq + bRnd
BitString(t, inst, s, r) ==
    TimeToBinary(t) \o inst \o PadStart(NatToString(s, 2), SeqBits, "0")
                    \o PadStart(NatToString(r, 2), RndBits, "0")

\* hexToDec(id) of the generated bit string
RawId(t, inst, s, r) ==
    LET bid == BitString(t, inst, s, r)
    IN HexToDec(BitsToHex(bid, Len(bid)))

\* .padStart(23, '0').substring(0, 23)
FixWidthNoCut(dec) == PadStart(dec, IdLength, "0")

FixWidth(dec) == Substring(PadStart(dec, IdLength, "0"), 0, IdLength)

NoId == <<>>
Threw == <<"TypeError">>
IsId(x) == x # NoId /\ x # Threw

\* the value generate() returns for a given raw decimal string; calling
\* padStart on null throws
Returned(raw) == IF raw = Null THEN Threw ELSE FixWidth(raw)
RawLenOf(raw) == IF raw = Null THEN 0 ELSE Len(raw)

\* Snowflake.prototype.generate
Generate ==
    /\ FlakeFrame
    /\ nCalls < MaxCalls
    /\ LET same == lastTime = now
           seq1 == NextSeq(same, seq)
           over == same /\ seq1 > SeqLimit
           seq2 == IF over THEN 0 ELSE seq1
           time == IF over THEN TimePlusOne(now) ELSE now
           raw == RawId(time, instanceNumber, seq2, rnd)
       IN /\ seq' = seq2
          /\ lastTime' = time
          /\ lastId' = Returned(raw)
          /\ rawLen' = RawLenOf(raw)
    /\ callsThisMs' = callsThisMs + 1
    /\ burst' = (burst \/ callsThisMs + 1 > SeqLimit + 1)
    /\ nCalls' = nCalls + 1
    /\ UNCHANGED <<now, rnd, instanceNumber, nTicks>>

\* the clock moves on by one millisecond
Tick ==
    /\ FlakeFrame
    /\ nTicks < MaxTicks
    /\ now' = TimePlusOne(now)
    /\ callsThisMs' = 0
    /\ nTicks' = nTicks + 1
    /\ UNCHANGED <<lastTime, seq, rnd, instanceNumber, lastId, rawLen, burst, nCalls>>

\* Clock values at which a generator is observed: right after the epoch,
\* before the binary form grows by a digit, in 2026, before the encoded
\* value reaches 24 decimal digits, and far in the future.
StartTimes ==
    { [hi |-> 0, lo |-> 1],
      [hi |-> 0, lo |-> LowRange - 1],
      [hi |-> 40199, lo |-> 11094016],
      [hi |-> 1387778, lo |-> 13099337],
      [hi |-> 476837158, lo |-> 3407872] }

\* Instance identifiers: hexadecimal strings (the default is four random
\* decimal digits).
InstanceIds ==
    { <<"0", "0", "0", "0">>, <<"0", "0", "1", "7">>, <<"9", "9", "9", "9">> }

\* Math.floor(Math.random() * 1023)
RndValues == {0, 1022}

\* Sequence numbers at which a generator is observed in mid-millisecond
SeqValues == {0, 1, SeqLimit - 1, SeqLimit}

\* A fresh generator (function Snowflake), or one that has made s + 1 calls
\* in the current millisecond, the latest having returned the ID of (now, s).
FlakeInit ==
    /\ now \in StartTimes
    /\ rnd \in RndValues
    /\ instanceNumber \in {InstanceNumberOf(i) : i \in InstanceIds}
    /\ \/ /\ seq = 0
          /\ lastTime = [hi |-> 0, lo |-> 0]
          /\ lastId = NoId
          /\ rawLen = 0
          /\ callsThisMs = 0
       \/ /\ seq \in SeqValues
          /\ lastTime = now
          /\ LET raw == RawId(now, instanceNumber, seq, rnd)
             IN /\ lastId = Returned(raw)
                /\ rawLen = RawLenOf(raw)
          /\ callsThisMs = seq + 1
    /\ burst = FALSE
    /\ nCalls = 0
    /\ nTicks = 0

\* the clock and the instance of the generator the adapter holds
IdleClock == [hi |-> 40199, lo |-> 11094016]
IdleInstance == InstanceNumberOf(<<"0", "0", "1", "7">>)

\* the generator the adapter holds while the other components run
FlakeIdle ==
    /\ now = IdleClock
    /\ rnd = 0
    /\ instanceNumber = IdleInstance
    /\ seq = 0
    /\ lastTime = [hi |-> 0, lo |-> 0]
    /\ lastId = NoId
    /\ rawLen = 0
    /\ callsThisMs = 0
    /\ burst = FALSE
    /\ nCalls = 0
    /\ nTicks = 0

FlakeNext == Generate \/ Tick

(***************************************************************************)
(* adapters/mongodb.js: values, entities and the collection.  A scalar is  *)
(* a record of its typeof, its number and its string; a value is a map     *)
(* from the paths of its leaves to scalars (a scalar itself has the empty  *)
(* path only, a missing value has none); a key is a string.                *)
(***************************************************************************)
Bool(b) == [t |-> "boolean", n |-> IF b THEN 1 ELSE 0, s |-> <<>>]
Num(k) == [t |-> "number", n |-> k, s |-> <<>>]
Str(chars) == [t |-> "string", n |-> 0, s |-> chars]

Missing == [p \in {} |-> Bool(FALSE)]
Scalar(v) == [p \in {<<>>} |-> v]
IsScalar(val) == DOMAIN val = {<<>>}

\* typeof value
TypeOf(val) ==
    IF val = Missing THEN "undefined"
    ELSE IF IsScalar(val) THEN val[<<>>].t
    ELSE "object"

\* an object literal, from its leaves <<path, scalar>>
Object(leaves) ==
    [p \in {leaves[i][1] : i \in DOMAIN leaves} |->
        leaves[CHOOSE i \in DOMAIN leaves : leaves[i][1] = p][2]]

HasPrefix(p, pre) == Len(p) >= Len(pre) /\ SubSeq(p, 1, Len(pre)) = pre

\* value.a.b for the path <<a, b>>
Get(val, path) ==
    LET below == {p \in DOMAIN val : HasPrefix(p, path)}
    IN [q \in {SubSeq(p, Len(path) + 1, Len(p)) : p \in below} |->
           val[path \o q]]

\* Object.keys(value)
TopKeys(val) == {p[1] : p \in {q \in DOMAIN val : Len(q) > 0}}

Dot == "."

\* key.split('.'), as the server reads a dotted field name
RECURSIVE SplitFrom(_, _, _)
SplitFrom(key, i, cur) ==
    IF i > Len(key) THEN <<cur>>
    ELSE IF key[i] = Dot THEN <<cur>> \o SplitFrom(key, i + 1, <<>>)
    ELSE SplitFrom(key, i + 1, Append(cur, key[i]))

SplitPath(key) == SplitFrom(key, 1, <<>>)

\* path.join('.')
RECURSIVE JoinPath(_)
JoinPath(path) ==
    IF Len(path) = 0 THEN <<>>
    ELSE IF Len(path) = 1 THEN path[1]
    ELSE path[1] \o <<Dot>> \o JoinPath(Tail(path))

(***************************************************************************)
(* The collection is a sequence of documents in natural order.  Field      *)
(* names of the entities used here.                                        *)
(***************************************************************************)
IdKey == <<"i", "d">>
StatusKey == <<"s", "t", "a", "t", "u", "s">>
VotesKey == <<"v", "o", "t", "e", "s">>
TitleKey == <<"t", "i", "t", "l", "e">>
MetaKey == <<"m", "e", "t", "a">>
ViewsKey == <<"v", "i", "e", "w", "s">>
LikesKey == <<"l", "i", "k", "e", "s">>
SetKey == <<"$", "s", "e", "t">>

\* utils.flatten(changes, { safe: true }): every leaf under the key that
\* joins its path with dots
Flatten(changes) ==
    [p \in {<<JoinPath(q)>> : q \in DOMAIN changes} |->
        changes[CHOOSE q \in DOMAIN changes : <<JoinPath(q)>> = p]]

\* the server cannot set a field below a scalar
BlockedBy(doc, path) ==
    \E k \in 1..(Len(path) - 1) : SubSeq(path, 1, k) \in DOMAIN doc

\* the document with the value at path replaced by val
SetPath(doc, path, val) ==
    LET kept == {p \in DOMAIN doc : ~HasPrefix(p, path)}
        new == {path \o q : q \in DOMAIN val}
    IN [p \in kept \cup new |->
           IF p \in new THEN val[SubSeq(p, Len(path) + 1, Len(p))]
           ELSE doc[p]]

\* { $set: fields } applied to a document, one key after the other
RECURSIVE ApplySet(_, _, _)
ApplySet(doc, fields, keys) ==
    IF keys = {} THEN doc
    ELSE LET k == CHOOSE x \in keys : TRUE
         IN ApplySet(SetPath(doc, SplitPath(k), Get(fields, <<k>>)),
                     fields, keys \ {k})

\* an update the server refuses: no operator at the top, or a field to be
\* set below a scalar
UpdateRefused(doc, update) ==
    \/ TopKeys(update) # {SetKey}
    \/ \E k \in TopKeys(Get(update, <<SetKey>>)) :
           BlockedBy(doc, SplitPath(k))

\* the document after an update document with $set
ApplyUpdate(doc, update) ==
    LET fields == Get(update, <<SetKey>>)
    IN ApplySet(doc, fields, TopKeys(fields))

\* raw ? changes : { $set: changes }
WrapNoFlatten(changes, raw) ==
    IF raw THEN changes
    ELSE [p \in {<<SetKey>> \o q : q \in DOMAIN changes} |->
             changes[Tail(p)]]

UpdateDocument(changes, raw) ==
    IF raw THEN changes
    ELSE LET flat == Flatten(changes)
         IN [p \in {<<SetKey>> \o q : q \in DOMAIN flat} |-> flat[Tail(p)]]

\* positions of the documents whose id field equals id: the filter { id }
WithId(coll, id) == {i \in DOMAIN coll : Get(coll[i], <<IdKey>>) = id}

(***************************************************************************)
(* Strings as the query translator and the server use them.                *)
(***************************************************************************)
\* `${value}` of a scalar
ScalarToString(v) ==
    IF v.t = "string" THEN v.s
    ELSE IF v.t = "number" THEN NumToString(v.n, 10)
    ELSE IF v.n = 1 THEN <<"t", "r", "u", "e">>
    ELSE <<"f", "a", "l", "s", "e">>

\* `${value}`
ToStr(val) ==
    IF val = Missing THEN <<"u", "n", "d", "e", "f", "i", "n", "e", "d">>
    ELSE IF IsScalar(val) THEN ScalarToString(val[<<>>])
    ELSE <<"[", "o", "b", "j", "e", "c", "t", " ",
           "O", "b", "j", "e", "c", "t", "]">>

\* s.startsWith(pre)
StartsWith(s, pre) == Len(s) >= Len(pre) /\ SubSeq(s, 1, Len(pre)) = pre

\* sub occurs in s
Contains(s, sub) ==
    \E i \in 0..(Len(s) - Len(sub)) : SubSeq(s, i + 1, i + Len(sub)) = sub

AnyChars == <<".", "*">>

\* `.*${regexPattern}.*`
Around(regexPattern) == AnyChars \o regexPattern \o AnyChars

\* the regular expression `.*text.*` with option i, text being letters and
\* digits, tested on a string
RegexTest(pattern, input) ==
    LET text == SubSeq(pattern, Len(AnyChars) + 1, Len(pattern) - Len(AnyChars))
    IN Contains(ToLowerCase(input), ToLowerCase(text))

\* characters in the order of their codes
CharTable == <<" ", "$", "-", ".">> \o SubSeq(HexChars, 1, 10)
                 \o UpperChars \o <<"[", "]", "_">> \o LowerChars
CharCode(ch) == CHOOSE i \in DOMAIN CharTable : CharTable[i] = ch

\* -1, 0 or 1 as the string a comes before, with or after b
RECURSIVE CompareStrings(_, _, _)
CompareStrings(a, b, i) ==
    IF i > Len(a) /\ i > Len(b) THEN 0
    ELSE IF i > Len(a) THEN 0 - 1
    ELSE IF i > Len(b) THEN 1
    ELSE IF CharCode(a[i]) < CharCode(b[i]) THEN 0 - 1
    ELSE IF CharCode(a[i]) > CharCode(b[i]) THEN 1
    ELSE CompareStrings(a, b, i + 1)

\* the server's order of types in a sort: missing and null, numbers,
\* strings, objects, booleans
TypeRank(val) ==
    LET t == TypeOf(val)
    IN IF t = "undefined" THEN 1
       ELSE IF t = "number" THEN 2
       ELSE IF t = "string" THEN 3
       ELSE IF t = "object" THEN 4
       ELSE 5

\* what the server compares of a value in a sort: the rank of its type,
\* its number and its string
SortKey(val) ==
    [rank |-> TypeRank(val),
     n |-> IF IsScalar(val) THEN val[<<>>].n ELSE 0,
     s |-> IF IsScalar(val) THEN val[<<>>].s ELSE <<>>]

\* -1, 0 or 1 as the server sorts a value with key a before, with or after
\* one with key b (objects are not compared further)
CompareValues(a, b) ==
    IF a.rank # b.rank THEN (IF a.rank < b.rank THEN 0 - 1 ELSE 1)
    ELSE IF a.n # b.n THEN (IF a.n < b.n THEN 0 - 1 ELSE 1)
    ELSE IF a.s = b.s THEN 0
    ELSE CompareStrings(a.s, b.s, 1)

(***************************************************************************)
(* The query translator.  An argument is one value or an array of values;  *)
(* a query is a tree of nodes.                                             *)
(***************************************************************************)
One(val) == [isArray |-> FALSE, items |-> <<val>>]
Many(vals) == [isArray |-> TRUE, items |-> vals]

IsMatchKey == <<"i", "s", "M", "a", "t", "c", "h">>
ValuesKey == <<"v", "a", "l", "u", "e", "s">>

\* a filter given as the value or array itself, and as { isMatch, values }
Direct(arg) == [form |-> "direct", isMatch |-> FALSE, values |-> arg]
Form(isMatch, arg) == [form |-> "object", isMatch |-> isMatch, values |-> arg]

\* the object { isMatch, values } as a value (an array under its indexes)
FormAsValue(f) ==
    LET items == f.values.items
        under(i) == IF f.values.isArray
                    THEN <<ValuesKey, NatToString(i - 1, 10)>>
                    ELSE <<ValuesKey>>
    IN [p \in {<<IsMatchKey>>}
               \cup UNION {{under(i) \o q : q \in DOMAIN items[i]} :
                                 i \in DOMAIN items} |->
           IF p = <<IsMatchKey>> THEN Bool(f.isMatch)
           ELSE LET i == CHOOSE k \in DOMAIN items : HasPrefix(p, under(k))
                IN items[i][SubSeq(p, Len(under(i)) + 1, Len(p))]]

Node(op, args, field, value, pattern) ==
    [op |-> op, args |-> args, field |-> field, value |-> value,
     pattern |-> pattern]

\* {}
MatchAll == Node("all", <<>>, <<>>, Missing, <<>>)
\* { $and: args } and { $or: args }
And(args) == Node("and", args, <<>>, Missing, <<>>)
Or(args) == Node("or", args, <<>>, Missing, <<>>)
\* { [field]: value }
Eq(field, value) == Node("eq", <<>>, field, value, <<>>)
\* { [field]: { $regex: pattern, $options: 'i' } }
Regex(field, pattern) == Node("regex", <<>>, field, Missing, pattern)
\* { $expr: { $regexMatch: { input: { $toString: `$${field}` }, regex: pattern, options: 'i' } } }
ExprRegexMatch(field, pattern) == Node("exprRegexMatch", <<>>, field, Missing, pattern)
\* { $expr: { input: { $toString: `$${field}` } } }
ExprInput(field) == Node("exprInput", <<>>, field, Missing, <<>>)
\* the caller's own query, passed through
Native(query) == Node("native", <<>>, <<>>, query, <<>>)

\* values.map((value) => `(${value})`).join('|')
RECURSIVE JoinAlternatives(_)
JoinAlternatives(items) ==
    IF Len(items) = 0 THEN <<>>
    ELSE LET first == <<"(">> \o ToStr(items[1]) \o <<")">>
         IN IF Len(items) = 1 THEN first
            ELSE first \o <<"|">> \o JoinAlternatives(Tail(items))

\* buildStandardMatch(field, values, type)
BuildStandardMatch(field, values, type) ==
    LET regexPattern == IF values.isArray THEN JoinAlternatives(values.items)
                        ELSE ToStr(values.items[1])
    IN IF type = "number" THEN ExprRegexMatch(field, Around(regexPattern))
       ELSE Regex(field, Around(regexPattern))

\* buildStandardStrict(field, value, type)
BuildStandardStrict(field, value, type) ==
    IF type = "number" THEN ExprInput(field) ELSE Eq(field, value.items[1])

\* this.service.$fields: the fields of the service that owns the adapter
Field(name, type, filter, search, properties) ==
    [name |-> name, type |-> type, filter |-> filter, search |-> search,
     properties |-> properties]

ServiceFields ==
    << Field(IdKey, "string", TRUE, FALSE, <<>>),
       Field(StatusKey, "boolean", TRUE, FALSE, <<>>),
       Field(VotesKey, "number", TRUE, TRUE, <<>>),
       Field(TitleKey, "string", FALSE, TRUE, <<>>),
       Field(MetaKey, "object", FALSE, TRUE,
             << Field(ViewsKey, "number", FALSE, TRUE, <<>>),
                Field(LikesKey, "number", FALSE, FALSE, <<>>) >>) >>

\* the fields a search looks into: a field itself, or the searchable
\* properties of an object field under their dotted names
SearchTargets(fd) ==
    IF fd.type = "object" /\ Len(fd.properties) > 0
    THEN LET Searchable(prop) == prop.search
             props == SelectSeq(fd.properties, Searchable)
         IN [i \in DOMAIN props |->
                [name |-> fd.name \o <<Dot>> \o props[i].name,
                 type |-> props[i].type]]
    ELSE <<[name |-> fd.name, type |-> fd.type]>>

RECURSIVE FlatMapTargets(_)
FlatMapTargets(fields) ==
    IF Len(fields) = 0 THEN <<>>
    ELSE SearchTargets(fields[1]) \o FlatMapTargets(Tail(fields))

\* processSearchParams(search, searchFields)
ProcessSearchParams(search, searchFields) ==
    IF Len(search) = 0 THEN <<>>
    ELSE LET IsFieldSearchable(fd) ==
                 /\ fd.search
                 /\ \/ ~searchFields.given
                    \/ \E i \in DOMAIN searchFields.names :
                           searchFields.names[i] = fd.name
                    \/ Len(searchFields.names) = 0
             searchInFields ==
                 FlatMapTargets(SelectSeq(ServiceFields, IsFieldSearchable))
             searchQueries ==
                 [i \in DOMAIN searchInFields |->
                     BuildStandardMatch(searchInFields[i].name,
                                        One(Scalar(Str(search))),
                                        searchInFields[i].type)]
         IN IF Len(searchQueries) > 0 THEN <<Or(searchQueries)>> ELSE <<>>

IsFilterable(field) ==
    \E i \in DOMAIN ServiceFields :
        ServiceFields[i].filter /\ ServiceFields[i].name = field

IsEmptyString(arg) == ~arg.isArray /\ arg.items[1] = Scalar(Str(<<>>))

\* valueObj, the filter as the caller gave it
ValueObj(f) == IF f.form = "direct" THEN f.values ELSE One(FormAsValue(f))

\* const valuesToProcess = isMatch ? values : valueObj
ValuesToProcess(f) == IF f.isMatch THEN f.values ELSE ValueObj(f)

\* the clauses one entry of the filter adds
FilterClause(field, f) ==
    IF ~IsFilterable(field) \/ (f.form = "direct" /\ IsEmptyString(f.values))
    THEN <<>>
    ELSE LET todo == ValuesToProcess(f).items
             processedValues ==
                 [i \in DOMAIN todo |->
                     IF f.isMatch
                     THEN BuildStandardMatch(field, One(todo[i]), TypeOf(todo[i]))
                     ELSE BuildStandardStrict(field, One(todo[i]), TypeOf(todo[i]))]
         IN IF Len(processedValues) > 1 THEN <<Or(processedValues)>>
            ELSE processedValues

\* processFilterParams(filter), the filter being its entries in order
RECURSIVE ProcessFilterParams(_)
ProcessFilterParams(filter) ==
    IF Len(filter) = 0 THEN <<>>
    ELSE FilterClause(filter[1][1], filter[1][2])
             \o ProcessFilterParams(Tail(filter))

\* parseParams(params)
ParseParams(params) ==
    LET cq == ProcessSearchParams(params.search, params.searchFields)
                  \o ProcessFilterParams(params.filter)
                  \o (IF params.query # Missing THEN <<Native(params.query)>>
                      ELSE <<>>)
    IN IF Len(cq) > 0 THEN And(cq) ELSE MatchAll

\* res[key] = dir: a key already there keeps its place
SortAssign(res, key, dir) ==
    IF \E i \in DOMAIN res : res[i].key = key
    THEN [i \in DOMAIN res |->
             IF res[i].key = key THEN [key |-> key, dir |-> dir] ELSE res[i]]
    ELSE Append(res, [key |-> key, dir |-> dir])

RECURSIVE SortReduce(_, _)
SortReduce(res, list) ==
    IF Len(list) = 0 THEN res
    ELSE LET str == list[1]
         IN SortReduce(IF StartsWith(str, <<"-">>)
                       THEN SortAssign(res, Tail(str), 0 - 1)
                       ELSE SortAssign(res, str, 1),
                       Tail(list))

\* a transformSort that takes every name as it is, ascending
TransformSortAscending(sort) ==
    IF sort.form \in {"string", "array"}
    THEN [i \in DOMAIN sort.strs |-> [key |-> sort.strs[i], dir |-> 1]]
    ELSE sort.obj

\* transformSort(sort): the keys to sort by, in order, each with 1 or -1
TransformSort(sort) ==
    IF sort.form \in {"string", "array"} THEN SortReduce(<<>>, sort.strs)
    ELSE sort.obj

(***************************************************************************)
(* The server: which documents a query matches, and in what order a        *)
(* cursor returns them.                                                    *)
(***************************************************************************)
RECURSIVE Matches(_, _)
Matches(doc, q) ==
    CASE q.op = "all" -> TRUE
      [] q.op = "and" -> \A i \in DOMAIN q.args : Matches(doc, q.args[i])
      [] q.op = "or" -> \E i \in DOMAIN q.args : Matches(doc, q.args[i])
      [] q.op = "eq" -> Get(doc, SplitPath(q.field)) = q.value
      [] q.op = "native" ->
            \A k \in TopKeys(q.value) :
                Get(doc, SplitPath(k)) = Get(q.value, <<k>>)
      [] q.op = "regex" ->
            LET v == Get(doc, SplitPath(q.field))
            IN TypeOf(v) = "string" /\ RegexTest(q.pattern, v[<<>>].s)
      [] q.op = "exprRegexMatch" ->
            LET v == Get(doc, SplitPath(q.field))
            IN IsScalar(v) /\ RegexTest(q.pattern, ScalarToString(v[<<>>]))
      \* an object without operators is a literal, and a literal is true
      [] q.op = "exprInput" -> TRUE

\* the keys of a sort as the paths the server follows
SortPaths(sortSpec) ==
    [k \in DOMAIN sortSpec |->
        [path |-> SplitPath(sortSpec[k].key), dir |-> sortSpec[k].dir]]

\* what each document has at the paths of the sort
SortKeys(coll, sortPaths) ==
    [i \in DOMAIN coll |->
        [k \in DOMAIN sortPaths |->
            SortKey(Get(coll[i], sortPaths[k].path))] \o <<>>]
      \o <<>>

\* -1, 0 or 1 as a document with keys a sorts before, with or after one
\* with keys b
RECURSIVE CompareDocs(_, _, _, _)
CompareDocs(a, b, sortPaths, k) ==
    IF k > Len(sortPaths) THEN 0
    ELSE LET c == CompareValues(a[k], b[k])
         IN IF c # 0 THEN c * sortPaths[k].dir
            ELSE CompareDocs(a, b, sortPaths, k + 1)

\* the document at i comes before the one at j: documents the sort does
\* not tell apart come in natural order or in its reverse
ComesFirst(keys, i, j, sortPaths, rev) ==
    LET c == CompareDocs(keys[i], keys[j], sortPaths, 1)
    IN c < 0 \/ (c = 0 /\ IF rev THEN i > j ELSE i < j)

\* the positions in at, in the order of the sort: each at the place that
\* the number of positions coming before it gives
SortPositions(keys, at, sortPaths, rev) ==
    LET rank == [i \in DOMAIN keys |->
                    IF i \in at
                    THEN Cardinality({j \in at :
                             ComesFirst(keys, j, i, sortPaths, rev)})
                    ELSE 0 - 1] \o <<>>
    IN [k \in 1..Cardinality(at) |-> CHOOSE i \in at : rank[i] = k - 1]
           \o <<>>

\* the positions in at in natural order
NaturalOrder(coll, at) ==
    LET In(i) == i \in at
    IN SelectSeq([i \in DOMAIN coll |-> i], In)

Undefined == [t |-> "undefined", n |-> 0, s |-> <<>>]

\* _.isNumber(v) && v > 0
IsPositiveNumber(v) == v.t = "number" /\ v.n > 0

\* params.sort is neither undefined nor the empty string
SortGiven(sort) ==
    ~(sort.form = "none" \/ (sort.form = "string" /\ sort.strs = <<<<>>>>))

\* cursor.skip(n) and cursor.limit(n)
Skip(s, n) == SubSeq(s, n + 1, Len(s))
LimitNoCut(s, n) == s
Limit(s, n) == SubSeq(s, 1, Min(n, Len(s)))

\* createQuery(params): the positions of the documents the cursor returns
CreateQuery(coll, params, rev) ==
    IF ~params.given THEN NaturalOrder(coll, DOMAIN coll)
    ELSE LET query == ParseParams(params)
             at == {i \in DOMAIN coll : Matches(coll[i], query)}
             sortSpec == IF SortGiven(params.sort)
                         THEN TransformSort(params.sort) ELSE <<>>
             sorted == IF Len(sortSpec) > 0
                       THEN LET sortPaths == SortPaths(sortSpec) \o <<>>
                                keys == SortKeys(coll, sortPaths)
                            IN SortPositions(keys, at, sortPaths, rev)
                       ELSE NaturalOrder(coll, at)
             skipped == IF IsPositiveNumber(params.offset)
                        THEN Skip(sorted, params.offset.n) ELSE sorted
         IN IF IsPositiveNumber(params.limit)
            THEN Limit(skipped, params.limit.n) ELSE skipped

(***************************************************************************)
(* Collections and calls the adapter is observed with.                     *)
(***************************************************************************)
Text(chars) == Scalar(Str(chars))

\* two entities that differ in status
StatusDocs ==
    << Object(<< <<<<IdKey>>, Str(<<"1">>)>>, <<<<StatusKey>>, Bool(TRUE)>> >>),
       Object(<< <<<<IdKey>>, Str(<<"2">>)>>, <<<<StatusKey>>, Bool(FALSE)>> >>) >>

\* entities with votes 0, 1, ... in the order of their insertion
VotedDocs ==
    [i \in 1..ManyEntities |->
        Object(<< <<<<IdKey>>, Str(NatToString(i - 1, 10))>>,
                  <<<<VotesKey>>, Num(i - 1)>> >>)]

\* entities with equal votes, nested fields, a missing field and a
\* repeated id
MixedDocs ==
    << Object(<< <<<<IdKey>>, Str(<<"1">>)>>, <<<<StatusKey>>, Bool(TRUE)>>,
                 <<<<VotesKey>>, Num(3)>>,
                 <<<<TitleKey>>, Str(<<"A", "b", "c">>)>>,
                 <<<<MetaKey, ViewsKey>>, Num(1)>>,
                 <<<<MetaKey, LikesKey>>, Num(2)>> >>),
       Object(<< <<<<IdKey>>, Str(<<"2">>)>>, <<<<StatusKey>>, Bool(FALSE)>>,
                 <<<<VotesKey>>, Num(3)>>,
                 <<<<TitleKey>>, Str(<<"b", "c", "d">>)>>,
                 <<<<MetaKey, ViewsKey>>, Num(10)>>,
                 <<<<MetaKey, LikesKey>>, Num(0)>> >>),
       Object(<< <<<<IdKey>>, Str(<<"3">>)>>,
                 <<<<VotesKey>>, Num(1)>>,
                 <<<<TitleKey>>, Str(<<"a", "b", "C">>)>> >>),
       Object(<< <<<<IdKey>>, Str(<<"1">>)>>, <<<<StatusKey>>, Bool(TRUE)>>,
                 <<<<VotesKey>>, Num(7)>> >>) >>

Collections == {<<>>, StatusDocs, VotedDocs, MixedDocs}

NoSearchFields == [given |-> FALSE, names |-> <<>>]
NoSort == [form |-> "none", strs |-> <<>>, obj |-> <<>>]
SortString(str) == [form |-> "string", strs |-> <<str>>, obj |-> <<>>]
SortArray(strs) == [form |-> "array", strs |-> strs, obj |-> <<>>]
SortObject(obj) == [form |-> "object", strs |-> <<>>, obj |-> obj]

\* what a find is asked to match
QueryPart(filter, search, searchFields, query) ==
    [filter |-> filter, search |-> search, searchFields |-> searchFields,
     query |-> query]

NoQueryPart == QueryPart(<<>>, <<>>, NoSearchFields, Missing)

QueryParts ==
    { NoQueryPart,
      QueryPart(<< <<StatusKey, Direct(One(Scalar(Bool(TRUE))))>> >>,
                <<>>, NoSearchFields, Missing),
      QueryPart(<< <<StatusKey, Form(FALSE, One(Scalar(Bool(TRUE))))>> >>,
                <<>>, NoSearchFields, Missing),
      QueryPart(<< <<StatusKey, Direct(Many(<<Scalar(Bool(TRUE)),
                                               Scalar(Bool(FALSE))>>))>> >>,
                <<>>, NoSearchFields, Missing),
      QueryPart(<< <<IdKey, Form(TRUE, One(Text(<<"1">>)))>>,
                   <<TitleKey, Direct(One(Text(<<"x">>)))>>,
                   <<StatusKey, Direct(One(Text(<<>>)))>> >>,
                <<>>, NoSearchFields, Missing),
      QueryPart(<< <<VotesKey, Direct(One(Scalar(Num(3))))>> >>,
                <<>>, NoSearchFields, Missing),
      QueryPart(<< <<VotesKey, Form(TRUE, One(Scalar(Num(3))))>> >>,
                <<>>, NoSearchFields, Missing),
      QueryPart(<< <<VotesKey, Form(TRUE, One(Text(<<"3">>)))>> >>,
                <<>>, NoSearchFields, Missing),
      QueryPart(<<>>, <<"a", "B">>, NoSearchFields, Missing),
      QueryPart(<<>>, <<"1">>, [given |-> TRUE, names |-> <<>>], Missing),
      QueryPart(<<>>, <<"b">>, [given |-> TRUE, names |-> <<TitleKey>>],
                Missing),
      QueryPart(<<>>, <<"b">>, [given |-> TRUE, names |-> <<IdKey>>],
                Missing),
      QueryPart(<<>>, <<"1">>, [given |-> TRUE, names |-> <<MetaKey>>],
                Object(<< <<<<StatusKey>>, Bool(FALSE)>> >>)),
      QueryPart(<<>>, <<>>, NoSearchFields,
                Object(<< <<<<StatusKey>>, Bool(TRUE)>> >>)) }

MinusVotes == <<"-">> \o VotesKey

Sorts ==
    { NoSort, SortString(VotesKey), SortString(MinusVotes),
      SortArray(<<MinusVotes, TitleKey>>),
      SortObject(<<[key |-> StatusKey, dir |-> 1]>>) }

Offsets == {Undefined, Num(0), Num(2)}
Limits == {Undefined, Num(0), Num(1), Num(2)}

FindParamsOf(part, sort, offset, limit) ==
    [given |-> TRUE, filter |-> part.filter, search |-> part.search,
     searchFields |-> part.searchFields, query |-> part.query,
     sort |-> sort, offset |-> offset, limit |-> limit]

\* find() without params
NoParams ==
    [given |-> FALSE, filter |-> <<>>, search |-> <<>>,
     searchFields |-> NoSearchFields, query |-> Missing,
     sort |-> NoSort, offset |-> Undefined, limit |-> Undefined]

\* every sort, offset and limit on the whole collection, and every query
\* with some of them
FindParams ==
    {NoParams, FindParamsOf(NoQueryPart, SortString(<<>>), Undefined, Num(1))}
      \cup {FindParamsOf(NoQueryPart, sort, offset, limit) :
                sort \in Sorts, offset \in Offsets, limit \in Limits}
      \cup {FindParamsOf(part, sort, Undefined, limit) :
                part \in QueryParts, sort \in {NoSort, SortString(MinusVotes)},
                limit \in {Undefined, Num(2)}}
      \cup {FindParamsOf(NoQueryPart, sort, Undefined, Undefined) :
                sort \in {SortArray(<<TitleKey, MinusVotes>>),
                          SortObject(<<[key |-> TitleKey, dir |-> 1]>>)}}

\* an id that one or two entities have, and one that none has
Ids == {Text(<<"1">>), Text(<<"x">>)}

\* changes given without raw: nested, several fields, a key with a dot, a
\* field below what is a scalar in some entities
Changes ==
    { Object(<< <<<<MetaKey, ViewsKey>>, Num(5)>> >>),
      Object(<< <<<<StatusKey>>, Bool(FALSE)>>,
                <<<<MetaKey, LikesKey>>, Num(9)>> >>),
      Object(<< <<<<MetaKey \o <<Dot>> \o ViewsKey>>, Num(6)>> >>),
      Object(<< <<<<StatusKey, ViewsKey>>, Num(1)>> >>) }

\* changes given with raw: an update document, and one without operator
RawChanges ==
    { Object(<< <<<<SetKey, MetaKey, ViewsKey>>, Num(5)>> >>),
      Object(<< <<<<VotesKey>>, Num(1)>> >>) }

NoUpdate == [id |-> Missing, changes |-> Missing, raw |-> FALSE]

\* no count has been made
NoCount == 0 - 1

\* a count that goes through the cursor of find
CreateCountPaged(coll, params) == Len(CreateQuery(coll, params, FALSE))

\* createQuery(params, { counting: true }): collection.countDocuments(q)
\* with the query of parseParams; sort, skip and limit are not applied
CreateCount(coll, params) ==
    IF ~params.given
    THEN Len(coll)
    ELSE LET query == ParseParams(params)
         IN Cardinality({i \in DOMAIN coll : Matches(coll[i], query)})

\* find(params): createQuery(params).toArray().  A find leaves the
\* collection as it is: one find is observed before or after an update.
Find ==
    /\ DbFrame
    /\ nOps < MaxOps
    /\ lastOp \notin {"find", "count"}
    /\ \E p \in FindParams :
         \E rev \in (IF SortGiven(p.sort) THEN BOOLEAN ELSE {FALSE}) :
           LET at == CreateQuery(collection, p, rev)
           IN /\ findParams' = p
              /\ findAt' = at
              /\ findResult' = [k \in DOMAIN findAt' |->
                                    collection[findAt'[k]]]
    /\ lastOp' = "find"
    /\ threw' = FALSE
    /\ upd' = NoUpdate
    /\ updated' = <<>>
    /\ nOps' = nOps + 1
    /\ counted' = NoCount
    /\ UNCHANGED collection

\* count(params): createQuery(params, { counting: true })
Count ==
    /\ DbFrame
    /\ nOps < MaxOps
    /\ lastOp \notin {"find", "count"}
    /\ \E p \in FindParams :
         /\ findParams' = p
         /\ counted' = CreateCount(collection, p)
    /\ findResult' = <<>>
    /\ findAt' = <<>>
    /\ lastOp' = "count"
    /\ threw' = FALSE
    /\ upd' = NoUpdate
    /\ updated' = <<>>
    /\ nOps' = nOps + 1
    /\ UNCHANGED collection

\* updateById(id, changes, opts): findOneAndUpdate({ id }, update,
\* { returnDocument: 'after' }) changes the first document with that id
UpdateById ==
    /\ DbFrame
    /\ nOps < MaxOps
    /\ \E id \in Ids, raw \in BOOLEAN :
         \E changes \in (IF raw THEN RawChanges ELSE Changes) :
           LET update == UpdateDocument(changes, raw)
               hits == WithId(collection, id)
               i == CHOOSE h \in hits : \A j \in hits : h <= j
               refused == \/ TopKeys(update) # {SetKey}
                          \/ hits # {} /\ UpdateRefused(collection[i], update)
           IN /\ upd' = [id |-> id, changes |-> changes, raw |-> raw]
              /\ threw' = refused
              /\ IF refused \/ hits = {}
                 THEN /\ collection' = collection
                      /\ updated' = <<>>
                 ELSE /\ collection' =
                            [collection EXCEPT ![i] = ApplyUpdate(@, update)]
                      /\ updated' = <<ApplyUpdate(collection[i], update)>>
    /\ lastOp' = "updateById"
    /\ findParams' = NoParams
    /\ findResult' = <<>>
    /\ findAt' = <<>>
    /\ nOps' = nOps + 1
    /\ counted' = NoCount

\* an adapter on which no method has been called
NoCallYet ==
    /\ lastOp = "none"
    /\ findParams = NoParams
    /\ findResult = <<>>
    /\ findAt = <<>>
    /\ upd = NoUpdate
    /\ updated = <<>>
    /\ threw = FALSE
    /\ nOps = 0
    /\ counted = NoCount

DbInit == collection \in Collections /\ NoCallYet

\* the adapter while the other components run
DbIdle == collection = <<>> /\ NoCallYet

DbNext == Find \/ Count \/ UpdateById

(***************************************************************************)
(* adapters/mongodb.js: the methods that create and replace entities, and  *)
(* findById.                                                               *)
(***************************************************************************)
KeyKey == <<"k", "e", "y">>

\* the key under which the server keeps its own identifier
OidKey == <<"_", "i", "d">>

\* service.$primaryField
PrimaryField(columnName, generated) ==
    [columnName |-> columnName, generated |-> generated]

\* the primary fields a schema declares: the default column, another column,
\* and a primary key that the caller provides
PrimaryFields ==
    { PrimaryField(IdKey, ""), PrimaryField(KeyKey, ""),
      PrimaryField(IdKey, "user") }

\* the n-th ObjectId the driver makes
ObjectId(n) == Scalar([t |-> "objectId", n |-> n, s |-> <<>>])

\* { ...a, ...b }: a key of b replaces the same key of a
Spread(a, b) ==
    LET kept == {p \in DOMAIN a : p[1] \notin TopKeys(b)}
    IN [p \in kept \cup DOMAIN b |-> IF p \in DOMAIN b THEN b[p] ELSE a[p]]

\* the IDs of that generator within one millisecond, by sequence number
IdTable ==
    [k \in 1..(2 * MaxWrites + 2) |->
        Returned(RawId(IdleClock, IdleInstance, k - 1, 0))] \o <<>>

\* the value generate() returns at a clock value and a sequence number
IdOf(t, inst, s, r) ==
    IF t = IdleClock /\ inst = IdleInstance /\ r = 0 /\ s + 1 \in DOMAIN IdTable
    THEN IdTable[s + 1]
    ELSE Returned(RawId(t, inst, s, r))

\* the generator as a call of the adapter finds it
GenState ==
    [seq |-> seq, lastTime |-> lastTime, lastId |-> lastId, calls |-> 0]

\* SnowflakeId.generate() called by the adapter: the generator afterwards
GenerateFrom(g) ==
    LET same == g.lastTime = now
        seq1 == NextSeq(same, g.seq)
        over == same /\ seq1 > SeqLimit
        seq2 == IF over THEN 0 ELSE seq1
        time == IF over THEN TimePlusOne(now) ELSE now
    IN [seq |-> seq2, lastTime |-> time,
        lastId |-> IdOf(time, instanceNumber, seq2, rnd),
        calls |-> g.calls + 1]

\* the generator after a call of the adapter that left it as g
GenUpdate(g) ==
    /\ seq' = g.seq
    /\ lastTime' = g.lastTime
    /\ lastId' = g.lastId
    /\ rawLen' = IF g.calls = 0 \/ ~IsId(g.lastId) THEN rawLen ELSE IdLength
    /\ callsThisMs' = callsThisMs + g.calls
    /\ burst' = (burst \/ callsThisMs + g.calls > SeqLimit + 1)
    /\ nCalls' = nCalls + g.calls
    /\ UNCHANGED <<now, rnd, instanceNumber, nTicks>>

\* { [columnName]: SnowflakeId.generate().toString(), ...entity }, made
\* being the generator after the call; generate() throwing makes it throw
WithGenerated(entity, made) ==
    [entity |-> Spread(SetPath(Missing, <<primaryField.columnName>>,
                               Text(made.lastId)),
                       entity),
     g |-> made, threw |-> made.lastId = Threw]

\* addIdToEntity(entity), with the generator before and after
AddIdToEntity(entity, g) ==
    IF primaryField.generated # "user"
    THEN WithGenerated(entity, GenerateFrom(g))
    ELSE [entity |-> entity, g |-> g, threw |-> FALSE]

\* entities.map((entity) => this.addIdToEntity(entity)): the first entity
\* mapped, then the others
RECURSIVE AddIds(_, _)
AddIdsAfter(first, others) ==
    IF first.threw
    THEN [entities |-> <<>>, g |-> first.g, threw |-> TRUE]
    ELSE [AddIds(others, first.g) EXCEPT !.entities = <<first.entity>> \o @]

AddIds(entities, g) ==
    IF entities = <<>> THEN [entities |-> <<>>, g |-> g, threw |-> FALSE]
    ELSE AddIdsAfter(AddIdToEntity(Head(entities), g), Tail(entities))

\* the driver gives a document without _id the n-th ObjectId, in place
WithOid(doc, n) ==
    IF OidKey \in TopKeys(doc) THEN doc
    ELSE SetPath(doc, <<OidKey>>, ObjectId(n))

\* what the driver does with a write: it stores and acknowledges, it stores
\* without acknowledging, or it throws and stores nothing
DriverOutcomes == {"ok", "unacknowledged", "rejected"}
Stores(outcome) == outcome \in {"ok", "unacknowledged"}

\* what the driver throws, and what insert and insertMany throw themselves
DriverError == "MongoServerError"
InsertOneFailed == "MongoDB insertOne failed."
InsertManyFailed == "MongoDB insertMany failed."
GenerateError == "TypeError"

\* the error caught inside insert or insertMany, by the outcome
CauseOf(outcome, unacknowledged) ==
    IF outcome = "rejected" THEN DriverError
    ELSE IF outcome = "unacknowledged" THEN unacknowledged
    ELSE ""

\* a handler that lets the caught error through
InsertCatchRethrow(cause) == cause

\* catch (error) { throw new Error('Creating Record Failed') }
InsertCatch(cause) == IF cause = "" THEN "" ELSE "Creating Record Failed"

InsertManyCatchRethrow(cause) == cause

\* catch (error) { throw new Error('Creating Many Records Failed') }
InsertManyCatch(cause) ==
    IF cause = "" THEN "" ELSE "Creating Many Records Failed"

NoCall ==
    [id |-> Missing, entities |-> <<>>, returnEntities |-> FALSE,
     outcome |-> "none"]

\* the variables of find, count and updateById during the other methods
NoQuery ==
    /\ findParams' = NoParams
    /\ findResult' = <<>>
    /\ findAt' = <<>>
    /\ upd' = NoUpdate
    /\ updated' = <<>>
    /\ counted' = NoCount

\* entities to create or to replace with: without the primary field, with
\* a value in the column id, with a value in the column key
PlainEntity == Object(<< <<<<TitleKey>>, Str(<<"x">>)>> >>)
EntityWithId ==
    Object(<< <<<<IdKey>>, Str(<<"1">>)>>, <<<<VotesKey>>, Num(3)>> >>)
EntityWithKey ==
    Object(<< <<<<KeyKey>>, Str(<<"x">>)>>, <<<<MetaKey, ViewsKey>>, Num(1)>> >>)

Entities == {PlainEntity, EntityWithId, EntityWithKey}

\* insert(entity)
Insert ==
    /\ UNCHANGED <<connVars, indexVars>>
    /\ nOps < MaxWrites
    /\ \E entity \in Entities, outcome \in DriverOutcomes :
       \E a \in {AddIdToEntity(entity, GenState)} :
         LET e == WithOid(a.entity, nextOid + 1)
             cause == IF a.threw THEN GenerateError
                      ELSE CauseOf(outcome, InsertOneFailed)
         IN /\ call' = [NoCall EXCEPT !.entities = <<entity>>,
                                      !.outcome = outcome]
            /\ GenUpdate(a.g)
            /\ errMsg' = InsertCatch(cause)
            /\ ret' = IF cause = "" THEN <<e>> ELSE <<>>
            /\ IF ~a.threw /\ Stores(outcome)
               THEN collection' = Append(collection, e)
               ELSE collection' = collection
            /\ nextOid' = IF a.threw THEN nextOid ELSE nextOid + 1
    /\ lastOp' = "insert"
    /\ threw' = (errMsg' # "")
    /\ nOps' = nOps + 1
    /\ primaryField' = primaryField
    /\ NoQuery

\* the arrays given to insertMany
EntityLists ==
    { <<PlainEntity>>, <<PlainEntity, EntityWithId>>,
      <<EntityWithKey, PlainEntity>> }

\* insertMany(entities, opts)
InsertMany ==
    /\ UNCHANGED <<connVars, indexVars>>
    /\ nOps < MaxWrites
    /\ \E entities \in EntityLists, returnEntities \in BOOLEAN,
          outcome \in DriverOutcomes :
       \E a \in {AddIds(entities, GenState)} :
         LET remappedEntities ==
                 [i \in DOMAIN a.entities |->
                     WithOid(a.entities[i], nextOid + i)]
             \* the caller's array afterwards: addIdToEntity copies an
             \* entity unless the primary key is the caller's
             given == IF primaryField.generated = "user"
                      THEN remappedEntities ELSE entities
             insertedIds == [i \in DOMAIN remappedEntities |->
                                Get(remappedEntities[i], <<OidKey>>)]
             msg == IF a.threw THEN GenerateError
                    ELSE InsertManyCatch(CauseOf(outcome, InsertManyFailed))
         IN /\ call' = [NoCall EXCEPT !.entities = entities,
                                      !.returnEntities = returnEntities,
                                      !.outcome = outcome]
            /\ GenUpdate(a.g)
            /\ errMsg' = msg
            /\ ret' = IF msg # "" THEN <<>>
                      ELSE IF returnEntities THEN given
                      ELSE insertedIds
            /\ IF ~a.threw /\ Stores(outcome)
               THEN collection' = collection \o remappedEntities
               ELSE collection' = collection
            /\ nextOid' = IF a.threw THEN nextOid
                          ELSE nextOid + Len(entities)
    /\ lastOp' = "insertMany"
    /\ threw' = (errMsg' # "")
    /\ nOps' = nOps + 1
    /\ primaryField' = primaryField
    /\ NoQuery

\* the flake variables during a method that generates no ID
NoGenerate == UNCHANGED flakeVars

\* replaceById(id, entity): e = { id, ...entity }; findOneAndReplace puts
\* e in the place of the first document with that id, which keeps its _id
ReplaceById ==
    /\ UNCHANGED <<connVars, indexVars>>
    /\ NoGenerate
    /\ nOps < MaxWrites
    /\ \E id \in Ids, entity \in Entities :
         LET e == Spread(SetPath(Missing, <<IdKey>>, id), entity)
             hits == WithId(collection, id)
             i == CHOOSE h \in hits : \A j \in hits : h <= j
             after == SetPath(e, <<OidKey>>, Get(collection[i], <<OidKey>>))
         IN /\ call' = [NoCall EXCEPT !.id = id, !.entities = <<entity>>]
            /\ IF hits = {}
               THEN /\ collection' = collection
                    /\ ret' = <<>>
               ELSE /\ collection' = [collection EXCEPT ![i] = after]
                    /\ ret' = <<after>>
    /\ errMsg' = ""
    /\ lastOp' = "replaceById"
    /\ threw' = FALSE
    /\ nOps' = nOps + 1
    /\ UNCHANGED <<primaryField, nextOid>>
    /\ NoQuery

\* the values of the primary field in what the latest call returned
ReturnedKeys ==
    {Get(ret[i], <<primaryField.columnName>>) : i \in DOMAIN ret} \ {Missing}

\* findById(id): collection.findOne({ id }), null when there is none
FindById ==
    /\ UNCHANGED <<connVars, indexVars>>
    /\ NoGenerate
    /\ nOps < MaxWrites
    /\ lastOp # "findById"
    /\ \E id \in Ids \cup ReturnedKeys :
         LET hits == WithId(collection, id)
             i == CHOOSE h \in hits : \A j \in hits : h <= j
         IN /\ call' = [NoCall EXCEPT !.id = id]
            /\ ret' = IF hits = {} THEN <<>> ELSE <<collection[i]>>
    /\ errMsg' = ""
    /\ lastOp' = "findById"
    /\ threw' = FALSE
    /\ nOps' = nOps + 1
    /\ UNCHANGED <<collection, primaryField, nextOid>>
    /\ NoQuery

\* entities stored before the first call
StoredDocs ==
    << SetPath(Object(<< <<<<IdKey>>, Str(<<"1">>)>>,
                         <<<<TitleKey>>, Str(<<"x">>)>> >>),
               <<OidKey>>, ObjectId(1)),
       SetPath(Object(<< <<<<IdKey>>, Str(<<"x">>)>>,
                         <<<<KeyKey>>, Str(<<"1">>)>>,
                         <<<<VotesKey>>, Num(3)>> >>),
               <<OidKey>>, ObjectId(2)) >>

\* the write methods while the other components run
WriteIdle ==
    /\ primaryField = PrimaryField(IdKey, "")
    /\ nextOid = 0
    /\ call = NoCall
    /\ ret = <<>>
    /\ errMsg = ""

WriteInit ==
    /\ collection \in {<<>>, StoredDocs}
    /\ nextOid = Len(collection)
    /\ primaryField \in PrimaryFields
    /\ call = NoCall
    /\ ret = <<>>
    /\ errMsg = ""
    /\ NoCallYet

WriteNext == Insert \/ InsertMany \/ ReplaceById \/ FindById


(***************************************************************************)
(* adapters/mongodb.js: connected() and createIndex.  An index is known    *)
(* by its name; an element of serviceIndexes is an index definition or an  *)
(* array of them.                                                          *)
(***************************************************************************)
IndexDef(name, fields, unique) ==
    [isArray |-> FALSE, name |-> name, fields |-> fields, unique |-> unique,
     defs |-> <<>>]

\* an array of definitions as one element: it has no name and no fields
DefArray(defs) ==
    [isArray |-> TRUE, name |-> <<>>, fields |-> <<>>, unique |-> FALSE,
     defs |-> defs]

\* settings.indexes: undefined, or the array of the definitions declared
NoIndexes == [defined |-> FALSE, defs |-> <<>>]

Declared(defs) == [defined |-> TRUE, defs |-> defs]

PrimarySuffix == <<"_", "p", "r", "i", "m", "a", "r", "y">>

\* { fields: columnName, unique: true, name: `${columnName}_primary` }
PrimaryIndex(columnName) ==
    IndexDef(columnName \o PrimarySuffix, columnName, TRUE)

\* serviceIndexes as connected() builds it: settings.indexes pushed as one
\* element, then the index of the primary field
ServiceIndexes(settings, primary) ==
    (IF settings.defined THEN <<DefArray(settings.defs)>> ELSE <<>>)
        \o (IF primary.generated # "user"
            THEN <<PrimaryIndex(primary.columnName)>> ELSE <<>>)

\* serviceIndexes.filter((item) =>
\*     !existingIndexes.some((exist) => exist.name === item.name))
ToCreateIndexes(serviceIndexes, existingIndexes) ==
    LET Absent(item) ==
            ~\E exist \in existingIndexes : ~item.isArray /\ exist = item.name
    IN SelectSeq(serviceIndexes, Absent)

\* createIndex(def): what collection.createIndex resolves with, or false
\* when it throws
CreateIndex(outcome) == outcome \in {"created", "same"}

\* what the driver can answer to collection.createIndex(fields, def): an
\* element without fields is refused; an index of that name is left as it
\* is, or reported as existing already; a new index is made, or not
CreateOutcomes(item) ==
    IF item.isArray THEN {"invalid"}
    ELSE IF item.name \in existing THEN {"same", "exists"}
    ELSE {"created", "failed"}

\* await this.collection.indexes() resolves: the indexes to create are
\* handed to createIndexes
ListIndexesOk(a) ==
    /\ UNCHANGED <<connVars, flakeVars, dbVars, writeVars>>
    /\ ipc[a] = "listing"
    /\ hasColl
    /\ LET toCreateIndexes ==
               ToCreateIndexes(ServiceIndexes(settingsIndexes, primaryField),
                               existing)
       IN /\ listed' = [listed EXCEPT ![a] = existing]
          /\ submitted' = [submitted EXCEPT ![a] = toCreateIndexes]
          /\ ipc' = [ipc EXCEPT ![a] =
                        IF Len(toCreateIndexes) = 0 THEN "done" ELSE "creating"]
    /\ UNCHANGED <<results, existing, hasColl, settingsIndexes>>

\* it rejects with NamespaceNotFound: connected() warns and returns
ListIndexesNotFound(a) ==
    /\ UNCHANGED <<connVars, flakeVars, dbVars, writeVars>>
    /\ ipc[a] = "listing"
    /\ ~hasColl
    /\ ipc' = [ipc EXCEPT ![a] = "warned"]
    /\ UNCHANGED <<listed, submitted, results, existing, hasColl,
                   settingsIndexes>>

\* it rejects with another error: connected() rethrows, and the promise
\* that nobody awaits rejects
ListIndexesFail(a) ==
    /\ UNCHANGED <<connVars, flakeVars, dbVars, writeVars>>
    /\ ipc[a] = "listing"
    /\ ipc' = [ipc EXCEPT ![a] = "rejected"]
    /\ UNCHANGED <<listed, submitted, results, existing, hasColl,
                   settingsIndexes>>

\* createIndexes calls createIndex(def) for the next element; after the
\* last one connected() returns
CreateNextIndex(a) ==
    /\ UNCHANGED <<connVars, flakeVars, dbVars, writeVars>>
    /\ ipc[a] = "creating"
    /\ LET item == submitted[a][Len(results[a]) + 1]
       IN \E outcome \in CreateOutcomes(item) :
            /\ results' = [results EXCEPT ![a] =
                              Append(@, [name |-> item.name,
                                         outcome |-> outcome,
                                         returned |-> CreateIndex(outcome)])]
            /\ existing' = IF outcome = "created"
                           THEN existing \cup {item.name} ELSE existing
            /\ hasColl' = (hasColl \/ outcome = "created")
    /\ ipc' = [ipc EXCEPT ![a] =
                  IF Len(results[a]) + 1 = Len(submitted[a])
                  THEN "done" ELSE "creating"]
    /\ UNCHANGED <<listed, submitted, settingsIndexes>>

\* the index a schema declares on title
TitleIndex == IndexDef(TitleKey \o <<"_", "1">>, TitleKey, FALSE)

\* no adapter has called connected()
IndexIdle ==
    /\ ipc = [a \in Adapters |-> "idle"]
    /\ listed = [a \in Adapters |-> {}]
    /\ submitted = [a \in Adapters |-> <<>>]
    /\ results = [a \in Adapters |-> <<>>]
    /\ existing = {}
    /\ hasColl = TRUE
    /\ settingsIndexes = NoIndexes

\* the adapters of one service share an open client and await the ping;
\* the collection may be there or not, with some of the indexes
IndexInit ==
    /\ store = [k \in Keys |->
                   IF k = DefaultUri
                   THEN [client |-> 1, refs |-> NumAdapters] ELSE NoEntry]
    /\ clients = <<[key |-> DefaultUri, state |-> "open", closes |-> 0]>>
    /\ pc = [a \in Adapters |-> "ping"]
    /\ aClient = [a \in Adapters |-> 1]
    /\ aUri = [a \in Adapters |-> ""]
    /\ nConnects = NumAdapters
    /\ ipc = [a \in Adapters |-> "idle"]
    /\ listed = [a \in Adapters |-> {}]
    /\ submitted = [a \in Adapters |-> <<>>]
    /\ results = [a \in Adapters |-> <<>>]
    /\ settingsIndexes \in {NoIndexes, Declared(<<>>), Declared(<<TitleIndex>>)}
    /\ primaryField \in PrimaryFields
    /\ hasColl \in BOOLEAN
    /\ existing \in (IF hasColl
                     THEN SUBSET {TitleIndex.name, PrimaryIndex(IdKey).name}
                     ELSE {{}})
    /\ nextOid = 0
    /\ call = NoCall
    /\ ret = <<>>
    /\ errMsg = ""

IndexNext ==
    \/ \E a \in Adapters : PingOk(a)
    \/ \E a \in Adapters : ListIndexesOk(a)
    \/ \E a \in Adapters : ListIndexesNotFound(a)
    \/ \E a \in Adapters : ListIndexesFail(a)
    \/ \E a \in Adapters : CreateNextIndex(a)


(***************************************************************************)
(* Specification of the connection component.                              *)
(***************************************************************************)
ConnInit ==
    /\ store = [k \in Keys |-> NoEntry]
    /\ clients = <<>>
    /\ pc = [a \in Adapters |-> "idle"]
    /\ aClient = [a \in Adapters |-> NoClient]
    /\ aUri \in [Adapters -> UriOptions]
    /\ nConnects = 0

ConnNext ==
    \/ \E a \in Adapters : Connect(a)
    \/ \E c \in 1..MaxConnects : DriverConnectOk(c)
    \/ \E c \in 1..MaxConnects : DriverConnectFail(c)
    \/ \E a \in Adapters : PingOk(a)
    \/ \E a \in Adapters : PingFail(a)
    \/ \E a \in Adapters : Disconnect(a)

ConnSpecInit == ConnInit /\ FlakeIdle /\ DbIdle /\ WriteIdle /\ IndexIdle

ConnSpec == ConnSpecInit /\ [][ConnNext]_vars

\* The driver settles every connect attempt and every ping (it resolves,
\* rejects or times out); nothing obliges the host to call connect() or
\* disconnect().
FairConnSpec ==
    /\ ConnSpec
    /\ WF_vars(\E c \in 1..MaxConnects : DriverConnectOk(c) \/ DriverConnectFail(c))
    /\ WF_vars(\E a \in Adapters : PingOk(a) \/ PingFail(a))

(***************************************************************************)
(* Claims about the connection component.                                  *)
(***************************************************************************)
InConnect(a) == pc[a] \in {"connecting", "waiting", "ping"}

\* C1: while a store entry exists for a key, a connect() for that key
\* constructs no client and adopts the registered one, however the
\* connect() calls of the adapters interleave.
C1_OneClientPerKey ==
    [][\A a \in Adapters :
          (Connect(a) /\ store[StoreKey(aUri[a])] # NoEntry) =>
              /\ Len(clients') = Len(clients)
              /\ aClient'[a] = store[StoreKey(aUri[a])].client]_vars

\* Two adapters of one key, the second having called connect() while the
\* first still awaits the driver: one client exists and both hold it.
C1_Witness ==
    \E a, b \in Adapters :
        /\ a # b
        /\ pc[a] = "connecting" /\ pc[b] = "waiting"
        /\ aClient[a] = aClient[b]
        /\ Len(clients) = 1
        /\ store[StoreKey(aUri[a])] = [client |-> aClient[a], refs |-> 2]

\* C2: disconnect() closes the adapter's client exactly when the adapter
\* released the last reference of its store key; otherwise every client is
\* left as it was.
C2_CloseIffLast ==
    [][\A a \in Adapters :
          Disconnect(a) =>
              LET key == StoreKey(aUri[a])
                  c == aClient[a]
                  last == store[key] # NoEntry /\ store[key].refs = 1
              IN /\ last <=> (clients'[c].closes = clients[c].closes + 1)
                 /\ last => clients'[c].state = "closed"
                 /\ ~last => clients' = clients]_vars

\* A and B connected once each on one URI and both have disconnected: the
\* first disconnect left the client open, the second closed it, once.
C2_Witness ==
    \E a, b \in Adapters :
        /\ a # b
        /\ nConnects = 2
        /\ pc[a] = "stopped" /\ pc[b] = "stopped"
        /\ aClient[a] = aClient[b]
        /\ clients[aClient[a]].state = "closed"
        /\ clients[aClient[a]].closes = 1

\* C3: an adapter waiting for a registered client leaves the wait once the
\* connect attempt on that client has completed, successfully or not.
C3_WaitersLeave ==
    \A a \in Adapters :
        (pc[a] = "waiting" /\ clients[aClient[a]].state \in {"open", "failed"})
            ~> (pc[a] # "waiting")

\* C4: when connect() fails, at the driver's connect or at the ping, the
\* failing adapter's reference is released, and the entry is removed if
\* that reference was the only one.
C4_FailureReleases ==
    [][\A a \in Adapters :
          (InConnect(a) /\ pc'[a] = "failed") =>
              LET key == StoreKey(aUri[a])
              IN /\ store[key] # NoEntry
                 /\ IF store[key].refs = 1
                    THEN store'[key] = NoEntry
                    ELSE store'[key] = [store[key] EXCEPT !.refs = @ - 1]]_vars

(***************************************************************************)
(* Specification of the ID generator.                                      *)
(***************************************************************************)
ConnIdle ==
    /\ store = [k \in Keys |-> NoEntry]
    /\ clients = <<>>
    /\ pc = [a \in Adapters |-> "idle"]
    /\ aClient = [a \in Adapters |-> NoClient]
    /\ aUri = [a \in Adapters |-> ""]
    /\ nConnects = 0

FlakeSpecInit == FlakeInit /\ ConnIdle /\ DbIdle /\ WriteIdle /\ IndexIdle

FlakeSpec == FlakeSpecInit /\ [][FlakeNext]_vars

(***************************************************************************)
(* Specification of the adapter's queries and updates.                     *)
(***************************************************************************)
DbSpecInit ==
    DbInit /\ ConnIdle /\ FlakeIdle /\ WriteIdle /\ IndexIdle

DbSpec == DbSpecInit /\ [][DbNext]_vars

(***************************************************************************)
(* Specification of the adapter's create, replace and findById methods.    *)
(***************************************************************************)
WriteSpecInit == WriteInit /\ ConnIdle /\ FlakeIdle /\ IndexIdle

WriteSpec == WriteSpecInit /\ [][WriteNext]_vars

(***************************************************************************)
(* Specification of the end of connect() and of connected().               *)
(***************************************************************************)
IndexSpecInit == IndexInit /\ FlakeIdle /\ DbIdle

IndexSpec == IndexSpecInit /\ [][IndexNext]_vars

(***************************************************************************)
(* Claims about the ID generator.                                          *)
(***************************************************************************)
\* IDs compared as strings of equal length, which for strings of decimal
\* digits is the comparison of the numbers they write
IdLess(a, b) ==
    \E i \in 1..Len(a) :
        /\ ParseDigit(a[i], 10) < ParseDigit(b[i], 10)
        /\ \A j \in 1..(i - 1) : a[j] = b[j]

\* C5, as claimed: while no millisecond has had more than 4096 calls and
\* the clock never goes back, each ID returned is greater than the ID
\* returned before it (and so than every earlier one).
C5_Increasing ==
    [][(Generate /\ IsId(lastId) /\ IsId(lastId') /\ ~burst')
          => IdLess(lastId, lastId')]_vars

\* C5, amended: the same, for IDs whose encoded value has at most 23
\* decimal digits, so that nothing is cut off.
C5_IncreasingUncut ==
    [][(Generate /\ IsId(lastId) /\ IsId(lastId') /\ ~burst'
           /\ rawLen' <= IdLength)
          => IdLess(lastId, lastId')]_vars

\* The 4096th call of one millisecond has returned an ID.
C5_Witness ==
    /\ nCalls >= 1
    /\ IsId(lastId)
    /\ lastTime = now
    /\ seq = SeqLimit
    /\ callsThisMs = SeqLimit + 1
    /\ ~burst

\* C6: whatever the number of calls in a millisecond, each ID returned is
\* greater than the ID returned before it, hence new and not smaller than
\* an earlier one (stated for IDs of at most 23 digits before cutting).
C6_IncreasingUnderBurst ==
    [][(Generate /\ IsId(lastId) /\ IsId(lastId')
           /\ rawLen <= IdLength /\ rawLen' <= IdLength)
          => IdLess(lastId, lastId')]_vars

\* C7: every value generate() returns is a string of exactly 23 decimal
\* digits.
C7_TwentyThreeDigits ==
    IsId(lastId) =>
        /\ Len(lastId) = IdLength
        /\ \A i \in 1..Len(lastId) : lastId[i] \in DecimalChars

\* generate() has returned an ID whose encoded value has more than 23
\* decimal digits.
C7_Witness ==
    /\ nCalls >= 1
    /\ IsId(lastId)
    /\ rawLen > IdLength

(***************************************************************************)
(* Claims about find.                                                      *)
(***************************************************************************)
\* the positions of the documents that match the translated query
Matching(coll, p) ==
    {i \in DOMAIN coll : Matches(coll[i], ParseParams(p))}

\* the keys of the sort a find asks for
SortPathsOf(p) ==
    IF SortGiven(p.sort) THEN SortPaths(TransformSort(p.sort)) ELSE <<>>

\* the positions at are the places from + 1 to from + Len(at) of the
\* matching positions ordered by the sort (in natural order without sort):
\* each is a matching position, none comes twice, and as many matching
\* documents sort before each as its place allows
IsSliceOfSorted(coll, p, at, from) ==
    LET match == Matching(coll, p)
        sortPaths == SortPathsOf(p)
        keys == SortKeys(coll, sortPaths)
        Less(j, i) == CompareDocs(keys[j], keys[i], sortPaths, 1) < 0
        NotMore(j, i) == CompareDocs(keys[j], keys[i], sortPaths, 1) <= 0
    IN /\ \A k \in DOMAIN at : at[k] \in match
       /\ \A k, l \in DOMAIN at : k # l => at[k] # at[l]
       /\ IF Len(sortPaths) = 0
          THEN at = SubSeq(NaturalOrder(coll, match), from + 1, from + Len(at))
          ELSE \A k \in DOMAIN at :
                   /\ Cardinality({j \in match : Less(j, at[k])}) < from + k
                   /\ Cardinality({j \in match : NotMore(j, at[k])}) >= from + k

\* the offset of a find, none given counting as 0
OffsetOf(p) == IF p.offset.t = "number" THEN p.offset.n ELSE 0

\* the documents left after the offset
LeftAfter(coll, p, from) == Max(Cardinality(Matching(coll, p)) - from, 0)

FoundAreAt == findResult = [k \in DOMAIN findAt |-> collection[findAt[k]]]

\* C8, as claimed: find(params) returns the matching entities ordered by
\* the sort, without the first offset of them, cut to at most limit
\* entities (all of them if no limit is given).
C8_FindSlice ==
    (lastOp = "find" /\ findParams.given) =>
        /\ FoundAreAt
        /\ IsSliceOfSorted(collection, findParams, findAt, OffsetOf(findParams))
        /\ Len(findAt) =
               IF findParams.limit.t = "number"
               THEN Min(findParams.limit.n,
                        LeftAfter(collection, findParams, OffsetOf(findParams)))
               ELSE LeftAfter(collection, findParams, OffsetOf(findParams))

\* C8, amended: the same, a limit of 0 cutting nothing, as if no limit
\* were given.
C8_FindSlicePositiveLimit ==
    (lastOp = "find" /\ findParams.given) =>
        /\ FoundAreAt
        /\ IsSliceOfSorted(collection, findParams, findAt, OffsetOf(findParams))
        /\ Len(findAt) =
               IF findParams.limit.t = "number" /\ findParams.limit.n > 0
               THEN Min(findParams.limit.n,
                        LeftAfter(collection, findParams, OffsetOf(findParams)))
               ELSE LeftAfter(collection, findParams, OffsetOf(findParams))

\* Of the 25 entities with votes 0..24, a find with sort "-votes" and
\* limit 2 has returned those with votes 24 and 23, in that order.
C8_Witness ==
    /\ lastOp = "find"
    /\ collection = VotedDocs
    /\ findParams = FindParamsOf(NoQueryPart, SortString(MinusVotes),
                                 Undefined, Num(2))
    /\ Len(findResult) = 2
    /\ findResult[1][<<VotesKey>>] = Num(ManyEntities - 1)
    /\ findResult[2][<<VotesKey>>] = Num(ManyEntities - 2)

\* the filter of a find is one strict filter in object form, and the find
\* asks for nothing else
IsStrictFormOnly(p) ==
    /\ p.given
    /\ Len(p.filter) = 1
    /\ p.filter[1][2].form = "object"
    /\ ~p.filter[1][2].isMatch
    /\ ~p.filter[1][2].values.isArray
    /\ IsFilterable(p.filter[1][1])
    /\ Len(p.search) = 0
    /\ p.query = Missing
    /\ p.offset = Undefined
    /\ p.limit = Undefined

\* C9: a find whose filter is {field: {isMatch: false, values: v}} on a
\* filterable field returns exactly the entities whose field equals v.
C9_StrictObjectForm ==
    (lastOp = "find" /\ IsStrictFormOnly(findParams)) =>
        {findAt[k] : k \in DOMAIN findAt} =
            {i \in DOMAIN collection :
                Get(collection[i], <<findParams.filter[1][1]>>)
                    = findParams.filter[1][2].values.items[1]}

(***************************************************************************)
(* Claims about updateById.                                                *)
(***************************************************************************)
\* the path of a leaf of the changes in the entity: its keys one after the
\* other, a key with dots being a path itself
RECURSIVE NamedPath(_)
NamedPath(q) ==
    IF Len(q) = 0 THEN <<>> ELSE SplitPath(q[1]) \o NamedPath(Tail(q))

\* after is before with the leaves of changes set at their paths, and
\* nothing else changed, added or removed
OnlyNamedChanged(before, after, changes) ==
    LET named == {NamedPath(q) : q \in DOMAIN changes}
        Under(p) == \E n \in named : HasPrefix(p, n)
    IN /\ \A q \in DOMAIN changes :
              Get(after, NamedPath(q)) = Scalar(changes[q])
       /\ \A p \in DOMAIN before :
              ~Under(p) => p \in DOMAIN after /\ after[p] = before[p]
       /\ \A p \in DOMAIN after :
              ~Under(p) => p \in DOMAIN before

\* C10: updateById(id, changes) without raw changes, in one entity with
\* that id, the leaf paths named in changes and nothing else: siblings,
\* other fields and other entities stay as they are.  It returns the
\* entity as updated, or nothing when no entity has that id.
C10_UpdateOnlyNamed ==
    [][(lastOp' = "updateById" /\ nOps' = nOps + 1 /\ ~upd'.raw)
          => LET hits == {i \in DOMAIN collection :
                             Get(collection[i], <<IdKey>>) = upd'.id}
             IN /\ DOMAIN collection' = DOMAIN collection
                /\ threw' => collection' = collection
                /\ (~threw' /\ hits = {}) =>
                       collection' = collection /\ updated' = <<>>
                /\ (~threw' /\ hits # {}) =>
                       \E i \in hits :
                           /\ \A j \in DOMAIN collection \ {i} :
                                  collection'[j] = collection[j]
                           /\ OnlyNamedChanged(collection[i], collection'[i],
                                               upd'.changes)
                           /\ updated' = <<collection'[i]>>]_vars

\* updateById(id, {meta: {views: 5}}) has returned an entity whose
\* meta.views is 5 and that still has its meta.likes.
C10_Witness ==
    /\ lastOp = "updateById"
    /\ ~upd.raw
    /\ upd.changes = Object(<< <<<<MetaKey, ViewsKey>>, Num(5)>> >>)
    /\ Len(updated) = 1
    /\ updated[1][<<MetaKey, ViewsKey>>] = Num(5)
    /\ <<MetaKey, LikesKey>> \in DOMAIN updated[1]
    /\ \E i \in DOMAIN collection : collection[i] = updated[1]

(***************************************************************************)
(* Claims about insert, insertMany, replaceById and findById.              *)
(***************************************************************************)
\* the column of the primary field, as a path
PrimaryPath == <<primaryField.columnName>>

SystemGenerated == primaryField.generated # "user"

\* the last n documents of the collection
Persisted(n) == SubSeq(collection, Len(collection) - n + 1, Len(collection))

\* C11: when the primary field is system-generated, the entity that insert
\* persists and returns has in its primary field the ID the generator made
\* during that call, whatever the input entity carries there.
C11_InsertFreshId ==
    (lastOp = "insert" /\ errMsg = "" /\ SystemGenerated)
        => /\ Len(ret) = 1
           /\ Get(ret[1], PrimaryPath) = Text(lastId)
           /\ Persisted(1) = ret

\* C12: when the primary field is system-generated, insertMany returns,
\* with returnEntities, the persisted entities, each with its primary key;
\* without it, the primary keys injected into the persisted entities, one
\* per input entity in the order of the input.
C12_InsertManyResult ==
    (lastOp = "insertMany" /\ errMsg = "" /\ SystemGenerated)
        => LET persisted == Persisted(Len(call.entities))
           IN /\ Len(ret) = Len(call.entities)
              /\ \A i \in DOMAIN ret :
                   IF call.returnEntities
                   THEN /\ ret[i] = persisted[i]
                        /\ Get(ret[i], PrimaryPath) # Missing
                   ELSE /\ ret[i] = Get(persisted[i], PrimaryPath)
                        /\ TypeOf(ret[i]) = "string"
                        /\ Len(ret[i][<<>>].s) = IdLength

\* the fields of an entity other than the named top-level keys
Without(entity, keys) ==
    [p \in {q \in DOMAIN entity : q[1] \notin keys} |-> entity[p]]

\* C13: after replaceById(id, entity) has replaced an entity, the stored
\* entity has id in its primary field and its other fields are those of
\* the given entity, even when that carries another primary value.
C13_ReplaceKeepsPrimary ==
    (lastOp = "replaceById" /\ ret # <<>>)
        => LET stored == ret[1]
               keys == {primaryField.columnName, OidKey}
           IN /\ \E i \in DOMAIN collection : collection[i] = stored
              /\ Get(stored, PrimaryPath) = call.id
              /\ Without(stored, keys) = Without(call.entities[1], keys)

\* C15: a findById that follows an insert and is given the primary value
\* of the entity the insert returned, returns that entity, for every
\* column name of the primary field.
C15_ReadYourInsert ==
    [][(/\ lastOp = "insert" /\ errMsg = "" /\ SystemGenerated
        /\ lastOp' = "findById"
        /\ call'.id = Get(ret[1], PrimaryPath))
           => ret' = ret]_vars

\* the error the claim expects of a create method whose write failed
CreationFailed(op) ==
    IF op = "insert" THEN "Creating Record Failed"
    ELSE "Creating Many Records Failed"

\* C16: insert and insertMany raise the same fixed creation-failed error
\* whenever the driver throws or does not acknowledge, whatever the cause,
\* and raise nothing when the driver acknowledges.
C16_GenericCreateError ==
    lastOp \in {"insert", "insertMany"}
        => IF call.outcome = "ok" THEN errMsg = "" /\ ret # <<>>
           ELSE errMsg = CreationFailed(lastOp) /\ ret = <<>>

\* an insertMany that the driver stored without acknowledging, and that
\* raised the error
C16_Witness ==
    /\ lastOp = "insertMany"
    /\ call.outcome = "unacknowledged"
    /\ Len(collection) >= Len(call.entities)
    /\ threw
    /\ errMsg # ""

(***************************************************************************)
(* Claims about count and about the translation of sort and filter.        *)
(***************************************************************************)
\* the params without sort, offset and limit
Unpaged(p) ==
    [p EXCEPT !.sort = NoSort, !.offset = Undefined, !.limit = Undefined]

ExpectedKey(str) ==
    IF StartsWith(str, <<"-">>) THEN SubSeq(str, 2, Len(str)) ELSE str
ExpectedDir(str) == IF StartsWith(str, <<"-">>) THEN 0 - 1 ELSE 1

\* C17: transformSort maps a field name or a list of distinct field names
\* to the fields in that order, a name with a leading dash to -1 under the
\* name without the dash and any other name to 1; a mapping of fields to
\* directions is returned as it is.
C17_TransformSort ==
    (lastOp = "find" /\ SortGiven(findParams.sort))
        => LET sort == findParams.sort
           IN IF sort.form = "object" THEN TransformSort(sort) = sort.obj
              ELSE TransformSort(sort) =
                       [i \in DOMAIN sort.strs |->
                           [key |-> ExpectedKey(sort.strs[i]),
                            dir |-> ExpectedDir(sort.strs[i])]]

\* a find sorted by ["title", "-votes"], which is {title: 1, votes: -1}
C17_Witness ==
    /\ lastOp = "find"
    /\ findParams.sort = SortArray(<<TitleKey, MinusVotes>>)
    /\ TransformSort(findParams.sort) =
           <<[key |-> TitleKey, dir |-> 1], [key |-> VotesKey, dir |-> 0 - 1]>>
    /\ Len(findResult) > 1

\* C18: the instance fingerprint is 5 binary digits, so that the encoded
\* bit string has 5 + 12 + 10 digits after those of the elapsed time.
C18_FiveBitInstance ==
    IsId(lastId)
        => /\ Len(instanceNumber) = InstancePad
           /\ Len(BitString(lastTime, instanceNumber, seq, rnd))
                  - Len(TimeToBinary(lastTime))
                = InstancePad + SeqBits + RndBits

\* the filter of a find is one entry on a filterable field, given in the
\* form asked for, with one value, and the find asks for nothing else
IsOneFilterOnly(p, form, isMatch) ==
    /\ p.given
    /\ Len(p.filter) = 1
    /\ p.filter[1][2].form = form
    /\ p.filter[1][2].isMatch = isMatch
    /\ ~p.filter[1][2].values.isArray
    /\ ~IsEmptyString(p.filter[1][2].values)
    /\ IsFilterable(p.filter[1][1])
    /\ Len(p.search) = 0
    /\ p.query = Missing
    /\ p.offset = Undefined
    /\ p.limit = Undefined

\* the positions a find has returned
FoundAt == {findAt[k] : k \in DOMAIN findAt}

\* C19: a find whose filter is {field: v} on a filterable field, v being a
\* string, a boolean or a number, returns exactly the entities whose field
\* equals v.
C19_StrictDirectValue ==
    (lastOp = "find" /\ IsOneFilterOnly(findParams, "direct", FALSE))
        => FoundAt = {i \in DOMAIN collection :
                         Get(collection[i], <<findParams.filter[1][1]>>)
                             = findParams.filter[1][2].values.items[1]}

\* a search for the text t in the one field
SearchIn(field, t) ==
    FindParamsOf(QueryPart(<<>>, ToStr(t),
                           [given |-> TRUE, names |-> <<field>>], Missing),
                 NoSort, Undefined, Undefined)

IsSearchable(field) ==
    \E i \in DOMAIN ServiceFields :
        ServiceFields[i].search /\ ServiceFields[i].name = field

\* C20: a find whose filter is {field: {isMatch: true, values: t}} on a
\* field that is searchable and filterable returns the entities that a
\* search for t in that field matches, whatever the types of the field
\* and of t.
C20_MatchLikeSearch ==
    (/\ lastOp = "find"
     /\ IsOneFilterOnly(findParams, "object", TRUE)
     /\ IsSearchable(findParams.filter[1][1]))
        => FoundAt = Matching(collection,
                              SearchIn(findParams.filter[1][1],
                                       findParams.filter[1][2].values.items[1]))

(***************************************************************************)
(* Claims about the search clause.                                         *)
(***************************************************************************)
\* the list of searchFields allows the field: there is no list, the list
\* is empty, or it names the field
AllowedBy(searchFields, name) ==
    \/ ~searchFields.given
    \/ Len(searchFields.names) = 0
    \/ \E i \in DOMAIN searchFields.names : searchFields.names[i] = name

\* the paths a search may look into with their types: a searchable field
\* that the list allows, or the searchable properties of such a field when
\* it is an object
AllowedTargets(searchFields) ==
    UNION {LET fd == ServiceFields[i]
           IN IF ~(fd.search /\ AllowedBy(searchFields, fd.name)) THEN {}
              ELSE IF fd.type = "object" /\ Len(fd.properties) > 0
              THEN {[path |-> <<fd.name, fd.properties[k].name>>,
                     type |-> fd.properties[k].type] :
                        k \in {j \in DOMAIN fd.properties :
                                   fd.properties[j].search}}
              ELSE {[path |-> <<fd.name>>, type |-> fd.type]} :
           i \in DOMAIN ServiceFields}

\* the term occurs in the entity at the target, whatever the case of the
\* letters; the value of a number field is taken as a string
TermIn(doc, target, term) ==
    LET v == Get(doc, target.path)
    IN /\ IsScalar(v)
       /\ target.type = "number" \/ v[<<>>].t = "string"
       /\ Contains(ToLowerCase(ScalarToString(v[<<>>])), ToLowerCase(term))

\* the find asks for a search and for nothing else
IsSearchOnly(p) ==
    /\ p.given
    /\ Len(p.search) > 0
    /\ Len(p.filter) = 0
    /\ p.query = Missing
    /\ p.offset = Undefined
    /\ p.limit = Undefined

\* C21: a find with a search returns exactly the entities in which the
\* term occurs in a searchable field (or searchable property of an object
\* field) that the list of searchFields allows, an empty or absent list
\* allowing every searchable field.
C21_SearchableFieldsOnly ==
    (lastOp = "find" /\ IsSearchOnly(findParams))
        => FoundAt = {i \in DOMAIN collection :
                         \E target \in AllowedTargets(findParams.searchFields) :
                             TermIn(collection[i], target, findParams.search)}

(***************************************************************************)
(* Claims about repeated disconnects.                                      *)
(***************************************************************************)
\* C24: whatever connect() and disconnect() calls the adapters of one key
\* make, close() is called at most once on a client, and never on a client
\* on which another adapter has completed connect() and not disconnected.
C24_CloseAtMostOnce ==
    \A c \in DOMAIN clients :
        /\ clients[c].closes <= 1
        /\ clients[c].state = "closed"
               => \A a \in Adapters : ~(aClient[a] = c /\ pc[a] = "ready")

(***************************************************************************)
(* Claims about the indexes ensured after a connect.                       *)
(***************************************************************************)
\* the names of the definitions an element of serviceIndexes carries
NamesIn(item) ==
    IF item.isArray
    THEN {item.defs[k].name : k \in DOMAIN item.defs}
    ELSE {item.name}

\* the names of the indexes a service requires: the unique index of the
\* primary field unless the user generates it, and the declared ones
RequiredNames ==
    (IF primaryField.generated # "user"
     THEN {PrimaryIndex(primaryField.columnName).name} ELSE {})
        \cup {settingsIndexes.defs[k].name : k \in DOMAIN settingsIndexes.defs}

\* the names handed to createIndexes by the connected() of adapter a
SubmittedNames(a) ==
    UNION {NamesIn(submitted[a][k]) : k \in DOMAIN submitted[a]}

\* C22: once the existing indexes are listed, the indexes submitted for
\* creation are the required ones whose name no listed index has; a
\* required index whose name is listed is not submitted again.
C22_SkipExistingByName ==
    \A a \in Adapters :
        ipc[a] \in {"creating", "done"}
            => SubmittedNames(a) = RequiredNames \ listed[a]

\* a declared index is submitted although an index of its name is listed
C22_Resubmitted ==
    \E a \in Adapters :
        /\ ipc[a] \in {"creating", "done"}
        /\ SubmittedNames(a) \cap listed[a] # {}

\* C22, for the index of the primary field only: it is submitted exactly
\* when no listed index has its name.
C22_PrimarySkipped ==
    \A a \in Adapters :
        ipc[a] \in {"creating", "done"} /\ primaryField.generated # "user"
            => LET name == PrimaryIndex(primaryField.columnName).name
               IN (name \in SubmittedNames(a)) <=> (name \notin listed[a])

(***************************************************************************)
(* Claims about index creation by several adapters.                        *)
(***************************************************************************)
\* adapter a was told by the driver that the index it creates exists
ToldExists(a) ==
    \E k \in DOMAIN results[a] : results[a][k].outcome = "exists"

\* C23: when an adapter creates an index that another adapter has created
\* meanwhile and the driver answers that it exists already, the createIndex
\* call returns success, not false, and connected() is not aborted.
C23_CollisionIsSuccess ==
    \A a \in Adapters :
        /\ \A k \in DOMAIN results[a] :
               results[a][k].outcome = "exists" => results[a][k].returned
        /\ ToldExists(a) => ipc[a] # "rejected"

\* C23, without the returned value: a createIndex that is told that the
\* index exists does not throw, and connected() goes on to its end.
C23_CollisionNotThrown ==
    \A a \in Adapters :
        ToldExists(a) => ipc[a] \in {"creating", "done"} /\ pc[a] = "ready"

(***************************************************************************)
(* Claims about the end of connect().                                      *)
(***************************************************************************)
\* C25: when connect() of an adapter has completed, its connected() has
\* ended, by returning or by the warning for a missing collection; if it
\* returned, the unique index of a system-generated primary field exists.
\* A connected() that failed otherwise leaves no completed connect().
C25_IndexesEnsuredAtConnect ==
    \A a \in Adapters :
        pc[a] = "ready"
            => /\ ipc[a] \in {"done", "warned"}
               /\ ipc[a] = "done" /\ primaryField.generated # "user"
                      => PrimaryIndex(primaryField.columnName).name
                             \in existing

=============================================================================
